---- MODULE Spec2Model ----
(***************************************************************************)
(* Model of the Neutron MCP server: the tool-call handler of index.ts and  *)
(* the NeutronClient session manager / request dispatcher.                 *)
(*                                                                         *)
(* Every `await` of the source is a scheduling point: the code between two *)
(* awaits of one tool call is one atomic step, and the steps of the tool   *)
(* calls in flight interleave freely.  The remote services are opaque, so  *)
(* the answer to every HTTP request is chosen nondeterministically.        *)
(***************************************************************************)
EXTENDS Integers, Sequences, FiniteSets, TLC

\* ---------------------------------------------------------------- bounds
MaxCalls == 2          \* tool calls started in one run, one at a time
MaxRace  == 2          \* tool calls of one run that are in flight together
MaxTicks == 2          \* clock advances in one run, calls one at a time
MaxRaceTicks == 1      \* clock advances in one run, calls in flight together
MaxTxn   == 2          \* transaction ids the remote hands out

\* ------------------------------------------------------- program constants
HourMs == 3600000      \* default token lifetime
NULL   == -1           \* JS null in accountId / accessToken
NaN    == -2           \* getTime() of an unparseable date

TickMs == HourMs \div 2
StartMs == TickMs

Calls  == 1..MaxRace
TxnIds == 1..MaxTxn

\* Strings: ABSENT is a missing key of a JSON body, "" is the empty string.
ABSENT == "<absent>"

\* JS undefined in a number-valued argument; a number key left out of an object.
Undef == -3

VARIABLES
    apiKey, apiSecret,      \* process.env.NEUTRON_API_KEY / _SECRET are set
    serverUp,               \* main() has connected the transport
    listed,                 \* a tools/list request has been answered
    client,                 \* _client is constructed
    accountId, accessToken, tokenExpiry, cachedAuthResponse,   \* NeutronClient
    now,                    \* Date.now()
    hsCount,                \* handshakes issued so far
    hsOk,                   \* ids of the handshakes answered with success
    started,                \* tool calls started so far
    call,                   \* per tool call: position and locals
    reqs                    \* per tool call: the HTTP requests it issued

env     == <<apiKey, apiSecret>>
session == <<accountId, accessToken, tokenExpiry, cachedAuthResponse>>
vars    == <<apiKey, apiSecret, serverUp, listed, client, accountId, accessToken,
             tokenExpiry, cachedAuthResponse, now, hsCount, hsOk, started, call, reqs>>

\* ------------------------------------------------------------ JS helpers
\* Truthiness of a string-valued session field: null and "" (0) are falsy,
\* the value issued by handshake n is n >= 1.
Truthy(v) == v >= 1

\* Truthiness of a JSON string field: a missing key and "" are falsy.
TruthyStr(s) == s # ABSENT /\ s # ""

\* a < b on JS numbers: any comparison with NaN is false.
NumLt(a, b) == a # NaN /\ b # NaN /\ a < b

\* ------------------------------------------------------------ JS numbers
\* A natural number is the sequence of its binary digits, most significant
\* first and without leading zeros (<<>> is 0), so that 53-bit mantissas and
\* their 80-bit products are computed exactly.
Strip(b) ==
    LET ones == {i \in DOMAIN b : b[i] = 1}
    IN  IF ones = {} THEN <<>>
        ELSE SubSeq(b, CHOOSE i \in ones : \A j \in ones : i <= j, Len(b))

RECURSIVE BitsOf(_)
BitsOf(n) == IF n = 0 THEN <<>> ELSE Append(BitsOf(n \div 2), n % 2)

\* The digit of weight 2^i.
Bit(b, i) == IF i < Len(b) THEN b[Len(b) - i] ELSE 0

\* The digits of weight 2^lo .. 2^hi of a + b + cin, and the carry out.
RECURSIVE AddRange(_, _, _, _, _)
AddRange(a, b, lo, hi, cin) ==
    IF lo = hi
    THEN LET t == Bit(a, lo) + Bit(b, lo) + cin IN [s |-> <<t % 2>>, c |-> t \div 2]
    ELSE LET mid  == (lo + hi) \div 2
             low  == AddRange(a, b, lo, mid, cin)
             high == IF low.c = 0 THEN AddRange(a, b, mid + 1, hi, 0)
                                  ELSE AddRange(a, b, mid + 1, hi, 1)
         IN  [s |-> high.s \o low.s, c |-> high.c]

BAdd(a, b) ==
    LET n == IF Len(a) > Len(b) THEN Len(a) ELSE Len(b)
        r == AddRange(a, b, 0, n - 1, 0)
    IN  IF n = 0 THEN <<>> ELSE Strip(<<r.c>> \o r.s)

\* a * 2^k
BShl(a, k) == IF a = <<>> THEN <<>> ELSE a \o [i \in 1..k |-> 0]

\* floor(a / 2^k)
BShr(a, k) == IF Len(a) <= k THEN <<>> ELSE SubSeq(a, 1, Len(a) - k)

\* The sum of a * 2^i over the digits 1 of weight 2^lo .. 2^hi of b.
RECURSIVE MulRange(_, _, _, _)
MulRange(a, b, lo, hi) ==
    IF lo = hi THEN (IF Bit(b, lo) = 1 THEN BShl(a, lo) ELSE <<>>)
    ELSE BAdd(MulRange(a, b, lo, (lo + hi) \div 2),
              MulRange(a, b, (lo + hi) \div 2 + 1, hi))

BMul(a, b) == IF b = <<>> THEN <<>> ELSE MulRange(a, b, 0, Len(b) - 1)

\* Long division of the digits lo..hi of a by d, entered with remainder rin.
RECURSIVE DivRange(_, _, _, _, _)
DivRange(a, d, lo, hi, rin) ==
    IF lo = hi
    THEN LET t == 2 * rin + a[lo] IN [q |-> <<t \div d>>, r |-> t % d]
    ELSE LET mid   == (lo + hi) \div 2
             left  == DivRange(a, d, lo, mid, rin)
             right == IF left.r = 0 THEN DivRange(a, d, mid + 1, hi, 0)
                                    ELSE DivRange(a, d, mid + 1, hi, left.r)
         IN  [q |-> left.q \o right.q, r |-> right.r]

\* floor(a / d) and a mod d, for a divisor below 2^29.
DivMod(a, d) ==
    LET r == DivRange(a, d, 1, Len(a), 0)
    IN  IF a = <<>> THEN [q |-> <<>>, r |-> 0] ELSE [q |-> Strip(r.q), r |-> r.r]

\* The precision of a JS number (an IEEE-754 double): 53 binary digits.
Precision == 53

\* A JS number is (-1)^neg * m * 2^e with m odd (or m = 0 and e = 0), m of
\* at most 53 digits.  The exponent range of a double is not reached.
Canon(neg, m, e) ==
    LET ones == {i \in DOMAIN m : m[i] = 1}
        last == CHOOSE i \in ones : \A j \in ones : j <= i
    IN  IF ones = {} THEN [neg |-> neg, m |-> <<>>, e |-> 0]
        ELSE [neg |-> neg, m |-> SubSeq(m, 1, last), e |-> e + Len(m) - last]

\* Round to nearest, ties to even: the double nearest to (m + f) * 2^e,
\* where 0 <= f < 1 and f > 0 iff sticky (sticky only with Len(m) > 53).
RoundNearestEven(neg, m, e, sticky) ==
    IF Len(m) <= Precision THEN Canon(neg, m, e)
    ELSE LET kept == SubSeq(m, 1, Precision)
             rest == sticky \/ \E i \in (Precision + 2)..Len(m) : m[i] = 1
             up   == m[Precision + 1] = 1 /\ (rest \/ kept[Precision] = 1)
         IN  Canon(neg, IF up THEN BAdd(kept, <<1>>) ELSE kept, e + Len(m) - Precision)

\* 100_000_000 satoshis are one BTC.
SatsPerBtc == 100000000

\* The value of the JSON number literal btc * 10^8 + sat (0 <= sat < 10^8),
\* negated if neg: a whole number of satoshis.
Sats(neg, btc, sat) ==
    RoundNearestEven(neg, BAdd(BMul(BitsOf(btc), BitsOf(SatsPerBtc)), BitsOf(sat)), 0, FALSE)

\* x / d for an integer divisor 0 < d < 2^29: the quotient is computed to
\* more than 53 digits, the remainder is the sticky bit.
NumDiv(x, d) ==
    IF x.m = <<>> THEN x
    ELSE LET k  == 84 - Len(x.m)
             dm == DivMod(BShl(x.m, k), d)
         IN  RoundNearestEven(x.neg, dm.q, x.e - k, dm.r # 0)

\* x * c for an integer c > 0.
NumMul(x, c) == RoundNearestEven(x.neg, BMul(x.m, BitsOf(c)), x.e, FALSE)

\* Mutant of MathRound: the fraction is cut off (Math.trunc).
MathTrunc(x) ==
    IF x.e >= 0 THEN x ELSE Canon(x.neg, BShr(x.m, 0 - x.e), 0)

\* Math.round(x): the integer nearest to x, a tie going towards +Infinity.
\* x = m * 2^e with m odd is a tie exactly when e = -1.
MathRound(x) ==
    IF x.e >= 0 THEN x
    ELSE IF x.neg /\ x.e = -1 THEN Canon(x.neg, BShr(x.m, 1), 0)
    ELSE Canon(x.neg, BShr(BAdd(x.m, BShl(<<1>>, (0 - x.e) - 1)), 0 - x.e), 0)

\* JS undefined in the place of a number.
Undefined == [undefined |-> TRUE]

\* ------------------------------------------------------------ data shapes
NoResp == [id |-> 0, accountId |-> NULL, accessToken |-> NULL,
           expiredAt |-> [k |-> "absent", t |-> 0]]

NoJson == [json |-> FALSE, error |-> ABSENT, message |-> ABSENT]

\* The Error a tool call ended with: its kind, the HTTP status and the detail
\* its message carries; ebody is the error body the remote had sent.
Err(kind, status, detail) == [kind |-> kind, status |-> status, detail |-> detail, ebody |-> NoJson]

NoErr  == Err("none", 0, "")
\* JS null in a string-valued field of a result.
NullStr == "<null>"

\* The result object of a tool call; ABSENT and Undefined are undefined.
NoVal  == [type |-> "none", txnId |-> 0, accountId |-> 0,
           invoice |-> ABSENT, qrPageUrl |-> ABSENT, amountBtc |-> Undefined,
           amountSats |-> Undefined, memo |-> ABSENT, status |-> ABSENT,
           loanId |-> 0, dlcContractId |-> 0, dlcError |-> ABSENT]
\* The object {}, and objects as functions from their keys: d[k] = v added
\* to d, and d without its key k.
EmptyObj == [k \in {} |-> ""]

Put(d, k, v) == [x \in DOMAIN d \cup {k} |-> IF x = k THEN v ELSE d[x]]

Without(d, k) == [x \in DOMAIN d \ {k} |-> d[x]]

\* request(method, path) without a body.
NoReqBody == [nobody |-> TRUE]

NoOp   == [method |-> "", path |-> "", target |-> 0, body |-> NoReqBody]
\* The body of a 2xx answer, as far as the handler reads it: txnId, txnState
\* and sourceReq?.reqDetails?.paymentRequest / .invoicePageUrl (ABSENT when
\* a link of the chain or the key is missing).
NoBody == [txnId |-> 0, txnState |-> ABSENT, paymentRequest |-> ABSENT,
           invoicePageUrl |-> ABSENT]

\* The JSON body of an answer of the lending service, as far as the handler
\* reads it: the literal null, or an object with id, status, contractId and
\* error (0 and ABSENT: the key is missing).
NoData == [null |-> FALSE, id |-> 0, status |-> ABSENT, contractId |-> 0, error |-> ABSENT]

\* A tool call: its position (pc), the request's name and arguments, the
\* locals that are live across awaits (ctx: which caller awaits
\* ensureAuthenticated; op: the request being made; ret: the value
\* ensureAuthenticated resolved with; btcAmount of the lightning shortcut) and
\* its outcome.
NoIntent == [sourceCcy |-> ABSENT, sourceMethod |-> ABSENT, sourceAmount |-> Undef,
             destCcy |-> ABSENT, destMethod |-> ABSENT, destAmount |-> Undef,
             paymentRequest |-> ABSENT, lnurl |-> ABSENT, address |-> ABSENT,
             bankAcctNum |-> ABSENT, institutionCode |-> ABSENT,
             recipientName |-> ABSENT, countryCode |-> ABSENT, kycType |-> ABSENT,
             extRefId |-> ABSENT]

NoArgs == [amountSats |-> Undefined, amountBtc |-> Undefined, memo |-> ABSENT,
           transactionId |-> 0, extRefId |-> ABSENT, intent |-> NoIntent,
           acceptTerms |-> Undef, borrowerPubkey |-> ABSENT]

IdleCall == [pc |-> "idle", tool |-> "", args |-> NoArgs,
             ctx |-> "", op |-> NoOp, ret |-> NoResp, btcAmount |-> Undefined,
             out |-> "none", err |-> NoErr, val |-> NoVal]

\* The tool names a call may arrive with (one representative per handler
\* shape, and a name the switch does not know).
ToolInputs == {"neutron_authenticate", "neutron_get_account",
               "neutron_create_lightning_invoice", "neutron_create_transaction",
               "neutron_confirm_transaction", "neutron_get_rate",
               "neutron_delete_webhook", "no_such_tool"}

\* The names of the tools array, which the ListToolsRequestSchema handler
\* returns.
ListedTools ==
    {"neutron_authenticate", "neutron_get_account", "neutron_get_wallets", "neutron_get_wallet",
     "neutron_create_lightning_invoice", "neutron_create_transaction",
     "neutron_confirm_transaction", "neutron_get_transaction", "neutron_list_transactions",
     "neutron_decode_invoice", "neutron_resolve_lightning_address", "neutron_resolve_lnurl",
     "neutron_get_btc_address", "neutron_get_usdt_address",
     "neutron_create_webhook", "neutron_list_webhooks", "neutron_update_webhook",
     "neutron_delete_webhook", "neutron_get_rate", "neutron_get_fiat_institutions"}

\* The public methods of class NeutronClient.
ClientMethods ==
    {"authenticate", "getAccount", "getWallets", "getWallet", "createTransaction",
     "confirmTransaction", "getTransaction", "listTransactions", "getBtcReceiveAddress",
     "getUsdtReceiveAddress", "createWebhook", "listWebhooks", "updateWebhook",
     "deleteWebhook", "getRate", "getFiatInstitutions"}

\* The client method that the case of a Lightning utility calls.
UtilityMethod(tool) ==
    CASE tool = "neutron_decode_invoice" -> "decodeInvoice"
      [] tool = "neutron_resolve_lightning_address" -> "resolveLightningAddress"
      [] OTHER -> "resolveLnurl"

\* The tool names of the calls that run concurrently.
RaceInputs == {"neutron_authenticate", "neutron_get_rate"}

\* The fiat payout of the README: a neutron_create_transaction intent.
PayoutIntent ==
    [NoIntent EXCEPT !.sourceCcy = "BTC", !.sourceMethod = "neutronpay",
                     !.destCcy = "VND", !.destMethod = "vnd-instant", !.destAmount = 5,
                     !.bankAcctNum = "0123456789", !.institutionCode = "970422",
                     !.recipientName = "Nguyen Van A", !.countryCode = "VN"]

\* amountSats: 5000
FiveThousandSats == Sats(FALSE, 0, 5000)

ArgsOf(name) ==
    IF name = "neutron_create_lightning_invoice"
    THEN {NoArgs, [NoArgs EXCEPT !.amountSats = FiveThousandSats]}
    ELSE IF name = "neutron_confirm_transaction"
    THEN {[NoArgs EXCEPT !.transactionId = t] : t \in TxnIds}
    ELSE IF name = "neutron_create_transaction"
    THEN {[NoArgs EXCEPT !.intent = PayoutIntent]}
    ELSE {NoArgs}

\* The intents of neutron_create_transaction: each amount is not given, 0 or
\* 5; each string argument is not given, empty (at most one of the five
\* destination details is) or a value; kycType is not given or "business".
Amounts == {Undef, 0, 5}

DetailFields == {"paymentRequest", "lnurl", "address", "bankAcctNum", "institutionCode"}

DetailValue(f) ==
    CASE f = "paymentRequest" -> "lnbc1"
      [] f = "lnurl" -> "user@domain.com"
      [] f = "address" -> "bc1q"
      [] f = "bankAcctNum" -> "0123456789"
      [] OTHER -> "970422"

DetailChoices ==
    {d \in [DetailFields -> {ABSENT, "", "v"}] :
        Cardinality({f \in DetailFields : d[f] = ""}) <= 1}

Given(d, f) == IF d[f] = "v" THEN DetailValue(f) ELSE d[f]

Intents ==
    {[sourceCcy |-> "BTC", sourceMethod |-> "neutronpay", sourceAmount |-> sa,
      destCcy |-> "VND", destMethod |-> "vnd-instant", destAmount |-> da,
      paymentRequest |-> Given(d, "paymentRequest"), lnurl |-> Given(d, "lnurl"),
      address |-> Given(d, "address"), bankAcctNum |-> Given(d, "bankAcctNum"),
      institutionCode |-> Given(d, "institutionCode"),
      recipientName |-> rn, countryCode |-> cc, kycType |-> kt, extRefId |-> ref] :
        sa \in Amounts, da \in Amounts, d \in DetailChoices,
        rn \in {ABSENT, "", "Nguyen Van A"}, cc \in {ABSENT, "", "VN"},
        kt \in {ABSENT, "business"}, ref \in {ABSENT, "", "ref-1"}}

\* The tool calls whose request body the handler assembles.
IntentCalls ==
    {[IdleCall EXCEPT !.tool = "neutron_create_transaction", !.args.intent = i] : i \in Intents}
    \cup {[IdleCall EXCEPT !.tool = "neutron_create_lightning_invoice",
                           !.args.amountSats = FiveThousandSats,
                           !.args.extRefId = ref] :
              ref \in {ABSENT, "", "ref-1"}}

\* The amounts of the lightning calls.  amountSats: 0, 1, 3, 5000, 10000,
\* 123456789, the 21 million BTC supply (2,099,999,997,690,000), 2^51 - 1,
\* 3,570,876,017,987,628, 2^53 - 1 (the largest safe integer), -3 and
\* -5000, or not given.  amountBtc: 0.0001 or not given.
SampleSats ==
    {Sats(FALSE, 0, 0), Sats(FALSE, 0, 1), Sats(FALSE, 0, 3), FiveThousandSats,
     Sats(FALSE, 0, 10000), Sats(FALSE, 1, 23456789), Sats(FALSE, 20999999, 97690000),
     Sats(FALSE, 22517998, 13685247), Sats(FALSE, 35708760, 17987628),
     Sats(FALSE, 90071992, 54740991), Sats(TRUE, 0, 3), Sats(TRUE, 0, 5000)}

SampleBtc == {NumDiv(Sats(FALSE, 0, 1), 10000)}

\* amountSats / 100_000_000, tabulated over the sample amounts.
BtcOfSats == [a \in SampleSats |-> NumDiv(a, SatsPerBtc)]

\* Math.round(btcAmount * 100_000_000), tabulated over the sample amounts.
RoundedSats ==
    [x \in {BtcOfSats[a] : a \in SampleSats} \cup SampleBtc |->
        MathRound(NumMul(x, SatsPerBtc))]

LnCalls ==
    {[IdleCall EXCEPT !.tool = "neutron_create_lightning_invoice",
                      !.args.amountSats = a, !.args.amountBtc = b, !.args.memo = m] :
        a \in SampleSats \cup {Undefined}, b \in SampleBtc \cup {Undefined},
        m \in {ABSENT, "", "coffee"}}

\* ----------------------------------------------------- remote's answers

\* Error bodies of a non-2xx answer: unparseable/empty, or an object with
\* optional error and message fields.
ErrBodies ==
    {NoJson,
     [json |-> TRUE,  error |-> ABSENT, message |-> ABSENT],
     [json |-> TRUE,  error |-> "X",    message |-> ABSENT],
     [json |-> TRUE,  error |-> ABSENT, message |-> "Y"],
     [json |-> TRUE,  error |-> "X",    message |-> "Y"],
     [json |-> TRUE,  error |-> "",     message |-> "Y"]}

StatusText(s) == IF s = 401 THEN "Unauthorized" ELSE "Bad Request"

\* Answers to an authenticated API request: every kind of answer.
ApiOutcomes ==
    {[st |-> "net", status |-> 0, ebody |-> NoJson, body |-> NoBody]}
    \cup {[st |-> "parse", status |-> 200, ebody |-> NoJson, body |-> NoBody]}
    \cup {[st |-> "http", status |-> 400, ebody |-> b, body |-> NoBody] : b \in ErrBodies}
    \cup {[st |-> "http", status |-> 401, ebody |-> NoJson, body |-> NoBody]}
    \cup {[st |-> "ok", status |-> 200, ebody |-> NoJson,
           body |-> [NoBody EXCEPT !.txnId = t]] : t \in TxnIds}

\* Answers to an authenticated API request: one of each kind.
CoarseApiOutcomes ==
    {[st |-> "net", status |-> 0, ebody |-> NoJson, body |-> NoBody],
     [st |-> "http", status |-> 401, ebody |-> NoJson, body |-> NoBody]}
    \cup {[st |-> "ok", status |-> 200, ebody |-> NoJson,
           body |-> [NoBody EXCEPT !.txnId = t]] : t \in TxnIds}

\* Answers to a transaction request: one failure of each kind, and the
\* transaction bodies with every txnId and state, with and without a
\* paymentRequest and an invoicePageUrl in sourceReq.reqDetails.
TxnOutcomes ==
    {[st |-> "net", status |-> 0, ebody |-> NoJson, body |-> NoBody],
     [st |-> "http", status |-> 401, ebody |-> NoJson, body |-> NoBody]}
    \cup {[st |-> "ok", status |-> 200, ebody |-> NoJson,
           body |-> [txnId |-> t, txnState |-> ts, paymentRequest |-> pr,
                     invoicePageUrl |-> url]] :
              t \in TxnIds, ts \in {"quoted", "confirmed"}, pr \in {ABSENT, "lnbc50u1p"},
              url \in {ABSENT, "https://pay.example/i/1"}}

\* Success bodies of handshake n answered at time t.  expiredAt is a
\* missing key ("absent"), the empty string ("empty"), a string that is no
\* date ("bad") or the date string of epoch t ("time").
AuthBodies(n, t) ==
    {[id |-> n, accountId |-> n, accessToken |-> n, expiredAt |-> e] :
        e \in {[k |-> "absent", t |-> 0], [k |-> "empty", t |-> 0], [k |-> "bad", t |-> 0],
               [k |-> "time", t |-> 0], [k |-> "time", t |-> t + TickMs]}}
    \cup {[id |-> n, accountId |-> 0, accessToken |-> n, expiredAt |-> [k |-> "absent", t |-> 0]],
          [id |-> n, accountId |-> n, accessToken |-> 0, expiredAt |-> [k |-> "absent", t |-> 0]]}

AuthOutcomes(n, t) ==
    {[st |-> "net", status |-> 0, ebody |-> NoJson, body |-> NoResp]}
    \cup {[st |-> "parse", status |-> 200, ebody |-> NoJson, body |-> NoResp]}
    \cup {[st |-> "http", status |-> 401, ebody |-> b, body |-> NoResp] :
            b \in {e \in ErrBodies : e.error # ""}}
    \cup {[st |-> "ok", status |-> 200, ebody |-> NoJson, body |-> b] :
            b \in AuthBodies(n, t)}

\* Answers to a handshake: one failure and one success.
CoarseAuthOutcomes(n, t) ==
    {[st |-> "http", status |-> 401, ebody |-> NoJson, body |-> NoResp],
     [st |-> "ok", status |-> 200, ebody |-> NoJson,
      body |-> [id |-> n, accountId |-> n, accessToken |-> n,
                expiredAt |-> [k |-> "time", t |-> t + TickMs]]]}

\* ------------------------------------------------------- session manager
SessionNow == [accountId |-> accountId, accessToken |-> accessToken,
               tokenExpiry |-> tokenExpiry, cachedAuthResponse |-> cachedAuthResponse]

\* authenticate() resets the four fields.
Cleared == [accountId |-> NULL, accessToken |-> NULL,
            tokenExpiry |-> 0, cachedAuthResponse |-> NoResp]

\* Mutant of Authenticated: the account id is not looked at.
AuthenticatedTokenOnly(car, tok, acc, exp, t) ==
    car.id # 0 /\ Truthy(tok) /\ NumLt(t, exp)

\* Mutant of Authenticated: the expiry comparison is inverted.
AuthenticatedInverted(car, tok, acc, exp, t) ==
    car.id # 0 /\ Truthy(tok) /\ Truthy(acc) /\ NumLt(exp, t)

\* Mutant of Authenticated: the session is still used at the instant of its
\* expiry.
AuthenticatedInclusive(car, tok, acc, exp, t) ==
    car.id # 0 /\ Truthy(tok) /\ Truthy(acc) /\ (NumLt(t, exp) \/ t = exp)

\* The guard of ensureAuthenticated: the cached answer is used.
Authenticated(car, tok, acc, exp, t) ==
    car.id # 0 /\ Truthy(tok) /\ Truthy(acc) /\ NumLt(t, exp)

\* Mutant of ExpiryOf: expiredAt is ignored, the default lifetime is used.
ExpiryOfAlwaysDefault(b, t) == t + HourMs

\* tokenExpiry after a successful handshake answered at time t.
ExpiryOf(b, t) ==
    IF b.expiredAt.k \in {"absent", "empty"} THEN t + HourMs
    ELSE IF b.expiredAt.k = "bad" THEN NaN
    ELSE b.expiredAt.t

\* response.json().catch(() => ({})): an unparseable body is the empty object.
ParsedErr(eb) == IF eb.json THEN eb ELSE [json |-> TRUE, error |-> ABSENT, message |-> ABSENT]

\* Authentication failed: message || error || statusText
AuthErrorDetail(eb, status) ==
    IF TruthyStr(ParsedErr(eb).message) THEN ParsedErr(eb).message
    ELSE IF TruthyStr(ParsedErr(eb).error) THEN ParsedErr(eb).error
    ELSE StatusText(status)

\* Mutant of ApiErrorDetail: the message field is preferred to the error field.
ApiErrorDetailMessageFirst(eb, status) ==
    IF TruthyStr(ParsedErr(eb).message) THEN ParsedErr(eb).message
    ELSE IF TruthyStr(ParsedErr(eb).error) THEN ParsedErr(eb).error
    ELSE StatusText(status)

\* API Error: error || message || statusText
ApiErrorDetail(eb, status) ==
    IF TruthyStr(ParsedErr(eb).error) THEN ParsedErr(eb).error
    ELSE IF TruthyStr(ParsedErr(eb).message) THEN ParsedErr(eb).message
    ELSE StatusText(status)

\* ------------------------------------------------------- request records
\* One HTTP request of a tool call, as the fetch call sends it, and (st, resp)
\* how it was answered.  n numbers the handshakes; forced: sent by
\* authenticate(); okSeen: handshakes that had succeeded when it was sent;
\* rbody: the parsed body of a 2xx answer to an API request; data: the parsed
\* body of an answer of the lending service.
HsEntry(n, forced, okc) ==
    [kind |-> "handshake", method |-> "POST", path |-> "token-signature", target |-> 0,
     bearer |-> 0, st |-> "pending", resp |-> 0, n |-> n, forced |-> forced, okSeen |-> okc,
     body |-> NoReqBody, rbody |-> NoBody, data |-> NoData]

\* JSON.stringify(body): a key whose value is undefined is left out.
JSONStringify(b) ==
    LET Kyc(k) ==
            LET d1 == IF k["details"]["legalFullName"] = ABSENT
                      THEN Without(k["details"], "legalFullName") ELSE k["details"]
                d2 == IF d1["countryCode"] = ABSENT THEN Without(d1, "countryCode") ELSE d1
            IN  Put(k, "details", d2)
        dest == IF "kyc" \in DOMAIN b["destReq"]
                THEN Put(b["destReq"], "kyc", Kyc(b["destReq"]["kyc"]))
                ELSE b["destReq"]
        top  == Put(b, "destReq", dest)
    IN  IF top["extRefId"] = ABSENT THEN Without(top, "extRefId") ELSE top

ApiEntry(op, tok) ==
    [kind |-> "api", method |-> op.method, path |-> op.path, target |-> op.target,
     bearer |-> tok, st |-> "pending", resp |-> 0, n |-> 0, forced |-> FALSE, okSeen |-> 0,
     body |-> IF op.body = NoReqBody THEN NoReqBody ELSE JSONStringify(op.body),
     rbody |-> NoBody, data |-> NoData]

SetLast(log, st, resp) == [log EXCEPT ![Len(log)].st = st, ![Len(log)].resp = resp]

Answered(log, body) ==
    [log EXCEPT ![Len(log)].st = "ok", ![Len(log)].resp = body.txnId, ![Len(log)].rbody = body]

\* ------------------------------------------- the handler's try / catch
\* catch (error): the call ends with an isError result.
Fail(c, e) == [c EXCEPT !.pc = "done", !.out = "isError", !.err = e,
                        !.ctx = "", !.op = NoOp, !.ret = NoResp, !.btcAmount = Undefined]

\* return { content: [...] }: the call ends with a result.
Finish(c, v) == [c EXCEPT !.pc = "done", !.out = "result", !.val = v,
                          !.ctx = "", !.op = NoOp, !.ret = NoResp,
                          !.btcAmount = Undefined]

\* Each fragment of a tool call between two awaits maps the call's record c,
\* its request log and the session s to what they are at the next await:
\* [call, log, hs (handshakes issued), s].
Throw(c, log, s, e) == [call |-> Fail(c, e), log |-> log, hs |-> 0, s |-> s]

Return(c, log, s, v) == [call |-> Finish(c, v), log |-> log, hs |-> 0, s |-> s]

\* Mutant of EnsureAuthenticated: a call that finds the handshake of another
\* call in flight does not send its own.
EnsureAuthenticatedShares(c, log, s) ==
    IF \/ Authenticated(s.cachedAuthResponse, s.accessToken, s.accountId, s.tokenExpiry, now)
       \/ (c.ctx # "authenticate" /\ \E q \in Calls : call[q].pc = "awaitAuth")
    THEN [call |-> [c EXCEPT !.pc = "authed", !.ret = s.cachedAuthResponse],
          log |-> log, hs |-> 0, s |-> s]
    ELSE [call |-> [c EXCEPT !.pc = "awaitAuth"],
          log |-> Append(log, HsEntry(hsCount + 1, c.ctx = "authenticate", Cardinality(hsOk))),
          hs |-> 1, s |-> s]

\* ensureAuthenticated up to its first await.
EnsureAuthenticated(c, log, s) ==
    IF Authenticated(s.cachedAuthResponse, s.accessToken, s.accountId, s.tokenExpiry, now)
    THEN [call |-> [c EXCEPT !.pc = "authed", !.ret = s.cachedAuthResponse],
          log |-> log, hs |-> 0, s |-> s]
    ELSE [call |-> [c EXCEPT !.pc = "awaitAuth"],
          log |-> Append(log, HsEntry(hsCount + 1, c.ctx = "authenticate", Cardinality(hsOk))),
          hs |-> 1, s |-> s]

\* Mutant of Authenticate: a session that is still valid is kept and used.
AuthenticateUnlessValid(c, log, s) ==
    EnsureAuthenticated([c EXCEPT !.ctx = "authenticate"], log,
                        IF Authenticated(s.cachedAuthResponse, s.accessToken, s.accountId,
                                         s.tokenExpiry, now)
                        THEN s ELSE Cleared)

\* Mutant of Authenticate: only the token is cleared.
AuthenticateClearsToken(c, log, s) ==
    EnsureAuthenticated([c EXCEPT !.ctx = "authenticate"], log, [s EXCEPT !.accessToken = NULL])

\* Mutant of Authenticate: the four fields are not cleared.
AuthenticateKeepsSession(c, log, s) ==
    EnsureAuthenticated([c EXCEPT !.ctx = "authenticate"], log, s)

\* authenticate(): clear the four fields, then ensureAuthenticated.
Authenticate(c, log, s) ==
    EnsureAuthenticated([c EXCEPT !.ctx = "authenticate"], log, Cleared)

\* request(method, path, body) up to its first await.
Request(c, log, s, op) ==
    EnsureAuthenticated([c EXCEPT !.ctx = "req", !.op = op], log, s)

\* getAccount / getWallets / getWallet: their own ensureAuthenticated first.
AccountCall(c, log, s) ==
    EnsureAuthenticated([c EXCEPT !.ctx = "pre",
                                  !.op = [method |-> "GET", path |-> "account", target |-> 0, body |-> NoReqBody]],
                        log, s)

CreateTransaction(c, log, s, body) ==
    Request(c, log, s, [method |-> "POST", path |-> "transaction", target |-> 0, body |-> body])

\* Mutant of ConfirmTransaction: a transaction that a confirm PUT of this
\* process has confirmed is not confirmed again.
ConfirmTransactionOnce(c, log, s, transactionId) ==
    IF \E q \in Calls : \E i \in DOMAIN reqs[q] :
          /\ reqs[q][i].kind = "api" /\ reqs[q][i].path = "confirm"
          /\ reqs[q][i].target = transactionId /\ reqs[q][i].st = "ok"
    THEN Return(c, log, s, [NoVal EXCEPT !.type = "body", !.txnId = transactionId])
    ELSE Request(c, log, s, [method |-> "PUT", path |-> "confirm", target |-> transactionId, body |-> NoReqBody])

ConfirmTransaction(c, log, s, transactionId) ==
    Request(c, log, s, [method |-> "PUT", path |-> "confirm", target |-> transactionId, body |-> NoReqBody])

\* case "neutron_create_lightning_invoice": the body of its create.
LightningBody(extRefId, btcAmount) ==
    [extRefId |-> extRefId,
     sourceReq |-> [ccy |-> "BTC", method |-> "lightning", reqDetails |-> EmptyObj],
     destReq |-> [ccy |-> "BTC", method |-> "neutronpay", amtRequested |-> btcAmount,
                  reqDetails |-> EmptyObj]]

\* Mutant of BtcAmount: an amount that is not given counts as 0.
BtcAmountDefaultsToZero(a) ==
    IF a.amountSats # Undefined THEN BtcOfSats[a.amountSats]
    ELSE IF a.amountBtc # Undefined THEN a.amountBtc
    ELSE BtcOfSats[Sats(FALSE, 0, 0)]

\* case "neutron_create_lightning_invoice": btcAmount, or Undefined when the
\* handler throws.
BtcAmount(a) ==
    IF a.amountSats # Undefined THEN BtcOfSats[a.amountSats]
    ELSE IF a.amountBtc # Undefined THEN a.amountBtc
    ELSE Undefined

\* case "neutron_create_lightning_invoice", up to its first await.
CreateLightningInvoice(c, log, s) ==
    IF BtcAmount(c.args) = Undefined
    THEN Throw(c, log, s, Err("precondition", 0, "Provide either amountSats or amountBtc"))
    ELSE CreateTransaction([c EXCEPT !.btcAmount = BtcAmount(c.args)], log, s,
                           LightningBody(c.args.extRefId, BtcAmount(c.args)))

\* Mutant of LightningResult: txnId is the one of the quote that was
\* confirmed, not the one in the answer to the confirm.
LightningResultOfQuote(c, confirmed) ==
    [NoVal EXCEPT !.type = "lightning", !.txnId = c.op.target,
                  !.invoice = confirmed.paymentRequest,
                  !.qrPageUrl = confirmed.invoicePageUrl,
                  !.amountBtc = c.btcAmount,
                  !.amountSats = RoundedSats[c.btcAmount],
                  !.memo = IF TruthyStr(c.args.memo) THEN c.args.memo ELSE NullStr,
                  !.status = confirmed.txnState]

\* case "neutron_create_lightning_invoice": its result, from the answer to
\* the confirm.
LightningResult(c, confirmed) ==
    [NoVal EXCEPT !.type = "lightning", !.txnId = confirmed.txnId,
                  !.invoice = confirmed.paymentRequest,
                  !.qrPageUrl = confirmed.invoicePageUrl,
                  !.amountBtc = c.btcAmount,
                  !.amountSats = RoundedSats[c.btcAmount],
                  !.memo = IF TruthyStr(c.args.memo) THEN c.args.memo ELSE NullStr,
                  !.status = confirmed.txnState]

\* Mutant of DestReqDetails: institutionCode is copied only along with a
\* bankAcctNum.
DestReqDetailsBankOnly(a) ==
    LET d1 == IF TruthyStr(a.paymentRequest)
              THEN Put(EmptyObj, "paymentRequest", a.paymentRequest) ELSE EmptyObj
        d2 == IF TruthyStr(a.lnurl) THEN Put(d1, "lnurl", a.lnurl) ELSE d1
        d3 == IF TruthyStr(a.address) THEN Put(d2, "address", a.address) ELSE d2
        d4 == IF TruthyStr(a.bankAcctNum) THEN Put(d3, "bankAcctNum", a.bankAcctNum) ELSE d3
    IN  IF TruthyStr(a.institutionCode) /\ TruthyStr(a.bankAcctNum)
        THEN Put(d4, "institutionCode", a.institutionCode) ELSE d4

\* case "neutron_create_transaction": destReqDetails.
DestReqDetails(a) ==
    LET d1 == IF TruthyStr(a.paymentRequest)
              THEN Put(EmptyObj, "paymentRequest", a.paymentRequest) ELSE EmptyObj
        d2 == IF TruthyStr(a.lnurl) THEN Put(d1, "lnurl", a.lnurl) ELSE d1
        d3 == IF TruthyStr(a.address) THEN Put(d2, "address", a.address) ELSE d2
        d4 == IF TruthyStr(a.bankAcctNum) THEN Put(d3, "bankAcctNum", a.bankAcctNum) ELSE d3
    IN  IF TruthyStr(a.institutionCode) THEN Put(d4, "institutionCode", a.institutionCode) ELSE d4

\* Mutant of HasKyc: only the recipient name is looked at.
HasKycNameOnly(a) == TruthyStr(a.recipientName)

\* kyc is assigned: a recipientName or a countryCode is truthy.
HasKyc(a) == TruthyStr(a.recipientName) \/ TruthyStr(a.countryCode)

Kyc(a) ==
    [type |-> IF TruthyStr(a.kycType) THEN a.kycType ELSE "individual",
     details |-> [legalFullName |-> a.recipientName, countryCode |-> a.countryCode]]

\* Mutant of HasSourceOfFunds: institutionCode marks the fiat payout too.
HasSourceOfFundsAnyBankField(a) == TruthyStr(a.bankAcctNum) \/ TruthyStr(a.institutionCode)

\* sourceOfFunds is assigned: bankAcctNum is truthy.
HasSourceOfFunds(a) == TruthyStr(a.bankAcctNum)

SourceOfFunds == [purpose |-> 1, source |-> 5, relationship |-> 3]

\* Mutant of SourceReq: an amount that is not given is sent as 0.
SourceReqZeroFill(a) ==
    [ccy |-> a.sourceCcy, method |-> a.sourceMethod, reqDetails |-> EmptyObj,
     amtRequested |-> IF a.sourceAmount # Undef THEN a.sourceAmount ELSE 0]

\* body.sourceReq
SourceReq(a) ==
    LET src0 == [ccy |-> a.sourceCcy, method |-> a.sourceMethod, reqDetails |-> EmptyObj]
    IN  IF a.sourceAmount # Undef THEN Put(src0, "amtRequested", a.sourceAmount) ELSE src0

\* body.destReq
DestReq(a) ==
    LET dst0 == [ccy |-> a.destCcy, method |-> a.destMethod, reqDetails |-> DestReqDetails(a)]
        dst1 == IF a.destAmount # Undef THEN Put(dst0, "amtRequested", a.destAmount) ELSE dst0
    IN  IF HasKyc(a) THEN Put(dst1, "kyc", Kyc(a)) ELSE dst1

\* Mutant of TransactionBody: the body names the account of the session.
TransactionBodyOfAccount(a) ==
    LET body0 == [extRefId |-> a.extRefId, sourceReq |-> SourceReq(a), destReq |-> DestReq(a),
                  accountId |-> accountId]
    IN  IF HasSourceOfFunds(a) THEN Put(body0, "sourceOfFunds", SourceOfFunds) ELSE body0

\* case "neutron_create_transaction": the body object.
TransactionBody(a) ==
    LET body0 == [extRefId |-> a.extRefId, sourceReq |-> SourceReq(a), destReq |-> DestReq(a)]
    IN  IF HasSourceOfFunds(a) THEN Put(body0, "sourceOfFunds", SourceOfFunds) ELSE body0

\* Mutant of CreateFromIntent: an intent with both amounts is rejected.
CreateFromIntentExclusive(c, log, s) ==
    IF c.args.intent.sourceAmount # Undef /\ c.args.intent.destAmount # Undef
    THEN Throw(c, log, s, Err("precondition", 0, "Set sourceAmount or destAmount, not both"))
    ELSE CreateTransaction(c, log, s, TransactionBody(c.args.intent))

\* case "neutron_create_transaction": assemble the body, then createTransaction.
CreateFromIntent(c, log, s) == CreateTransaction(c, log, s, TransactionBody(c.args.intent))

\* The switch of the CallToolRequestSchema handler, up to its first await.
Handler(c, log, s) ==
    CASE c.tool = "neutron_authenticate" -> Authenticate(c, log, s)
      [] c.tool \in {"neutron_get_account", "neutron_get_wallets", "neutron_get_wallet"} ->
            AccountCall(c, log, s)
      [] c.tool = "neutron_create_lightning_invoice" -> CreateLightningInvoice(c, log, s)
      [] c.tool = "neutron_create_transaction" -> CreateFromIntent(c, log, s)
      [] c.tool = "neutron_confirm_transaction" ->
            ConfirmTransaction(c, log, s, c.args.transactionId)
      [] c.tool \in {"neutron_get_transaction", "neutron_list_transactions"} ->
            Request(c, log, s, [method |-> "GET", path |-> "transaction", target |-> 0, body |-> NoReqBody])
      [] c.tool \in {"neutron_decode_invoice", "neutron_resolve_lightning_address",
                     "neutron_resolve_lnurl"} ->
            \* client.m(...) of a method m the class does not define throws
            \* TypeError: client.m is not a function
            IF UtilityMethod(c.tool) \in ClientMethods
            THEN Request(c, log, s, [method |-> "GET", path |-> "lightning", target |-> 0, body |-> NoReqBody])
            ELSE Throw(c, log, s, Err("type", 0, UtilityMethod(c.tool)))
      [] c.tool \in {"neutron_get_btc_address", "neutron_get_usdt_address"} ->
            Request(c, log, s, [method |-> "GET", path |-> "address", target |-> 0, body |-> NoReqBody])
      [] c.tool = "neutron_create_webhook" ->
            Request(c, log, s, [method |-> "POST", path |-> "webhook", target |-> 0, body |-> NoReqBody])
      [] c.tool = "neutron_list_webhooks" ->
            Request(c, log, s, [method |-> "GET", path |-> "webhook", target |-> 0, body |-> NoReqBody])
      [] c.tool = "neutron_update_webhook" ->
            Request(c, log, s, [method |-> "PUT", path |-> "webhook", target |-> 0, body |-> NoReqBody])
      [] c.tool = "neutron_delete_webhook" ->
            Request(c, log, s, [method |-> "DELETE", path |-> "webhook", target |-> 0, body |-> NoReqBody])
      [] c.tool = "neutron_get_rate" ->
            Request(c, log, s, [method |-> "GET", path |-> "rate", target |-> 0, body |-> NoReqBody])
      [] c.tool = "neutron_get_fiat_institutions" ->
            Request(c, log, s, [method |-> "GET", path |-> "fiat-institution", target |-> 0, body |-> NoReqBody])
      [] OTHER -> Throw(c, log, s, Err("unknown_tool", 0, c.tool))

\* What runs when the awaited ensureAuthenticated has resolved.
Resume(c, log, s) ==
    CASE c.ctx = "authenticate" ->
            Return(c, log, s, [NoVal EXCEPT !.type = "auth", !.accountId = c.ret.accountId])
      [] c.ctx = "pre" -> Request(c, log, s, [c.op EXCEPT !.target = s.accountId])
      [] OTHER ->
            [call |-> [c EXCEPT !.pc = "awaitApi"],
             log |-> Append(log, ApiEntry(c.op, s.accessToken)),
             hs |-> 0, s |-> s]

\* Mutant of LandAuth: a handshake that fails resets the session.
LandAuthClearsOnFailure(c, log, s, r) ==
    CASE r.st = "net" ->
            Throw(c, SetLast(log, "net", 0), Cleared, Err("network", 0, "fetch failed"))
      [] r.st = "http" ->
            Throw(c, SetLast(log, "http", r.status), Cleared,
                  [Err("auth", r.status, AuthErrorDetail(r.ebody, r.status)) EXCEPT !.ebody = r.ebody])
      [] r.st = "parse" ->
            Throw(c, SetLast(log, "parse", 0), Cleared, Err("syntax", 0, "Unexpected end of JSON input"))
      [] OTHER ->
            [call |-> [c EXCEPT !.pc = "authed", !.ret = r.body],
             log |-> SetLast(log, "ok", r.body.id), hs |-> 0,
             s |-> [accountId |-> r.body.accountId, accessToken |-> r.body.accessToken,
                    tokenExpiry |-> ExpiryOf(r.body, now), cachedAuthResponse |-> r.body]]

\* Mutant of LandAuth: response.ok is not checked, a non-2xx answer goes on
\* to the caller.
LandAuthIgnoresStatus(c, log, s, r) ==
    CASE r.st = "net" ->
            Throw(c, SetLast(log, "net", 0), s, Err("network", 0, "fetch failed"))
      [] r.st = "http" ->
            [call |-> [c EXCEPT !.pc = "authed"], log |-> SetLast(log, "http", r.status),
             hs |-> 0, s |-> s]
      [] r.st = "parse" ->
            Throw(c, SetLast(log, "parse", 0), s, Err("syntax", 0, "Unexpected end of JSON input"))
      [] OTHER ->
            [call |-> [c EXCEPT !.pc = "authed", !.ret = r.body],
             log |-> SetLast(log, "ok", r.body.id), hs |-> 0,
             s |-> [accountId |-> r.body.accountId, accessToken |-> r.body.accessToken,
                    tokenExpiry |-> ExpiryOf(r.body, now), cachedAuthResponse |-> r.body]]

\* Mutant of LandAuth: the session fields are written before response.ok is
\* checked, so a non-2xx answer is cached too.
LandAuthCachesFailure(c, log, s, r) ==
    CASE r.st = "net" ->
            Throw(c, SetLast(log, "net", 0), s, Err("network", 0, "fetch failed"))
      [] r.st = "http" ->
            Throw(c, SetLast(log, "http", r.status),
                  [accountId |-> log[Len(log)].n, accessToken |-> log[Len(log)].n,
                   tokenExpiry |-> now + HourMs,
                   cachedAuthResponse |-> [NoResp EXCEPT !.id = log[Len(log)].n]],
                  [Err("auth", r.status, AuthErrorDetail(r.ebody, r.status)) EXCEPT !.ebody = r.ebody])
      [] r.st = "parse" ->
            Throw(c, SetLast(log, "parse", 0), s, Err("syntax", 0, "Unexpected end of JSON input"))
      [] OTHER ->
            [call |-> [c EXCEPT !.pc = "authed", !.ret = r.body],
             log |-> SetLast(log, "ok", r.body.id), hs |-> 0,
             s |-> [accountId |-> r.body.accountId, accessToken |-> r.body.accessToken,
                    tokenExpiry |-> ExpiryOf(r.body, now), cachedAuthResponse |-> r.body]]

\* The answer r to the handshake lands: the rest of ensureAuthenticated.
LandAuth(c, log, s, r) ==
    CASE r.st = "net" ->
            Throw(c, SetLast(log, "net", 0), s, Err("network", 0, "fetch failed"))
      [] r.st = "http" ->
            Throw(c, SetLast(log, "http", r.status), s,
                  [Err("auth", r.status, AuthErrorDetail(r.ebody, r.status)) EXCEPT !.ebody = r.ebody])
      [] r.st = "parse" ->
            Throw(c, SetLast(log, "parse", 0), s, Err("syntax", 0, "Unexpected end of JSON input"))
      [] OTHER ->
            [call |-> [c EXCEPT !.pc = "authed", !.ret = r.body],
             log |-> SetLast(log, "ok", r.body.id), hs |-> 0,
             s |-> [accountId |-> r.body.accountId, accessToken |-> r.body.accessToken,
                    tokenExpiry |-> ExpiryOf(r.body, now), cachedAuthResponse |-> r.body]]

\* Mutant of Continue: the shortcut confirms the id of its arguments, not
\* the txnId of the create's answer.
ContinueConfirmsOtherId(c, log, s, b) ==
    CASE c.tool = "neutron_create_lightning_invoice" /\ c.op.path = "transaction" ->
            ConfirmTransaction(c, log, s, c.args.transactionId)
      [] c.tool = "neutron_create_lightning_invoice" /\ c.op.path = "confirm" ->
            Return(c, log, s, LightningResult(c, b))
      [] c.tool = "neutron_delete_webhook" ->
            Return(c, log, s, [NoVal EXCEPT !.type = "deleted"])
      [] OTHER -> Return(c, log, s, [NoVal EXCEPT !.type = "body", !.txnId = b.txnId])

\* Mutant of Continue: the shortcut returns the quote without confirming it.
ContinueSkipsConfirm(c, log, s, b) ==
    CASE c.tool = "neutron_create_lightning_invoice" ->
            Return(c, log, s, LightningResult(c, b))
      [] c.tool = "neutron_delete_webhook" ->
            Return(c, log, s, [NoVal EXCEPT !.type = "deleted"])
      [] OTHER -> Return(c, log, s, [NoVal EXCEPT !.type = "body", !.txnId = b.txnId])

\* Mutant of Continue: neutron_create_transaction confirms its quote too.
ContinueAutoConfirms(c, log, s, b) ==
    CASE c.tool \in {"neutron_create_lightning_invoice", "neutron_create_transaction"}
            /\ c.op.path = "transaction" ->
            ConfirmTransaction(c, log, s, b.txnId)
      [] c.tool = "neutron_create_lightning_invoice" /\ c.op.path = "confirm" ->
            Return(c, log, s, LightningResult(c, b))
      [] c.tool = "neutron_delete_webhook" ->
            Return(c, log, s, [NoVal EXCEPT !.type = "deleted"])
      [] OTHER -> Return(c, log, s, [NoVal EXCEPT !.type = "body", !.txnId = b.txnId])

\* The handler's code after a client method returned body b.
Continue(c, log, s, b) ==
    CASE c.tool = "neutron_create_lightning_invoice" /\ c.op.path = "transaction" ->
            ConfirmTransaction(c, log, s, b.txnId)
      [] c.tool = "neutron_create_lightning_invoice" /\ c.op.path = "confirm" ->
            Return(c, log, s, LightningResult(c, b))
      [] c.tool = "neutron_delete_webhook" ->
            Return(c, log, s, [NoVal EXCEPT !.type = "deleted"])
      [] OTHER -> Return(c, log, s, [NoVal EXCEPT !.type = "body", !.txnId = b.txnId])

\* Mutant of LandApi: a 2xx answer whose body is no JSON counts as a success
\* with an empty body.
LandApiAcceptsAnyBody(c, log, s, r) ==
    CASE r.st = "net" ->
            Throw(c, SetLast(log, "net", 0), s, Err("network", 0, "fetch failed"))
      [] r.st = "http" ->
            Throw(c, SetLast(log, "http", r.status), s,
                  [Err("api", r.status, ApiErrorDetail(r.ebody, r.status)) EXCEPT !.ebody = r.ebody])
      [] r.st = "parse" -> Continue(c, SetLast(log, "parse", 0), s, NoBody)
      [] OTHER -> Continue(c, Answered(log, r.body), s, r.body)

\* Mutant of LandApi: a failed request invalidates the cached session.
LandApiInvalidates(c, log, s, r) ==
    CASE r.st = "net" ->
            Throw(c, SetLast(log, "net", 0), Cleared, Err("network", 0, "fetch failed"))
      [] r.st = "http" ->
            Throw(c, SetLast(log, "http", r.status), Cleared,
                  [Err("api", r.status, ApiErrorDetail(r.ebody, r.status)) EXCEPT !.ebody = r.ebody])
      [] r.st = "parse" ->
            Throw(c, SetLast(log, "parse", 0), s, Err("syntax", 0, "Unexpected end of JSON input"))
      [] OTHER -> Continue(c, Answered(log, r.body), s, r.body)

\* Mutant of LandApi: a request answered with a non-2xx status is sent once
\* more.
LandApiRetries(c, log, s, r) ==
    CASE r.st = "net" ->
            Throw(c, SetLast(log, "net", 0), s, Err("network", 0, "fetch failed"))
      [] r.st = "http" /\ Len(log) < 3 ->
            [call |-> c, log |-> Append(SetLast(log, "http", r.status), ApiEntry(c.op, s.accessToken)),
             hs |-> 0, s |-> s]
      [] r.st = "http" /\ Len(log) >= 3 ->
            Throw(c, SetLast(log, "http", r.status), s,
                  [Err("api", r.status, ApiErrorDetail(r.ebody, r.status)) EXCEPT !.ebody = r.ebody])
      [] r.st = "parse" ->
            Throw(c, SetLast(log, "parse", 0), s, Err("syntax", 0, "Unexpected end of JSON input"))
      [] OTHER -> Continue(c, Answered(log, r.body), s, r.body)

\* The answer r to an API request lands: the rest of request().
LandApi(c, log, s, r) ==
    CASE r.st = "net" ->
            Throw(c, SetLast(log, "net", 0), s, Err("network", 0, "fetch failed"))
      [] r.st = "http" ->
            Throw(c, SetLast(log, "http", r.status), s,
                  [Err("api", r.status, ApiErrorDetail(r.ebody, r.status)) EXCEPT !.ebody = r.ebody])
      [] r.st = "parse" ->
            Throw(c, SetLast(log, "parse", 0), s, Err("syntax", 0, "Unexpected end of JSON input"))
      [] OTHER -> Continue(c, Answered(log, r.body), s, r.body)

\* Mutant of GetClientThrows: the credentials are not checked.
GetClientNeverThrows == FALSE

\* getClient() throws: no client yet and a credential is missing.
GetClientThrows == ~client /\ ~(apiKey /\ apiSecret)

\* Mutant of GetClient: every tool call constructs a new client.
GetClientConstructsAnew(s) == Cleared

\* getClient() returns: the session fields of the instance the call uses,
\* those of _client or those of a new NeutronClient.
GetClient(s) == IF client THEN s ELSE Cleared

\* ------------------------------------------------------------- actions
Init ==
    /\ apiKey \in BOOLEAN /\ apiSecret \in BOOLEAN
    /\ serverUp = FALSE /\ listed = FALSE /\ client = FALSE
    /\ accountId = NULL /\ accessToken = NULL /\ tokenExpiry = 0
    /\ cachedAuthResponse = NoResp
    /\ now = StartMs
    /\ hsCount = 0 /\ hsOk = {} /\ started = 0
    /\ call = [p \in Calls |-> IdleCall]
    /\ reqs = [p \in Calls |-> <<>>]

Apply(p, r) ==
    /\ call' = [call EXCEPT ![p] = r.call]
    /\ reqs' = [reqs EXCEPT ![p] = r.log]
    /\ hsCount' = hsCount + r.hs
    /\ accountId' = r.s.accountId
    /\ accessToken' = r.s.accessToken
    /\ tokenExpiry' = r.s.tokenExpiry
    /\ cachedAuthResponse' = r.s.cachedAuthResponse

\* main(): connect the transport.
Main ==
    /\ ~serverUp
    /\ serverUp' = TRUE
    /\ UNCHANGED <<env, listed, client, session, now, hsCount, hsOk, started, call, reqs>>

\* ListToolsRequestSchema handler.
ListTools ==
    /\ serverUp
    /\ listed' = TRUE
    /\ UNCHANGED <<env, serverUp, client, session, now, hsCount, hsOk, started, call, reqs>>

\* The wall clock advances.
Tick(limit) ==
    /\ now < StartMs + limit * TickMs
    /\ now' = now + TickMs
    /\ UNCHANGED <<env, serverUp, listed, client, session, hsCount, hsOk, started, call, reqs>>

\* CallToolRequestSchema handler, from its entry to its first await, for
\* the request c in slot p.
StartCall(p, c) ==
    /\ started' = started + 1
    /\ IF GetClientThrows
       THEN /\ call' = [call EXCEPT ![p] =
                  [c EXCEPT !.pc = "done", !.out = "thrown",
                            !.err = Err("config", 0, "NEUTRON_API_KEY and NEUTRON_API_SECRET environment variables are required")]]
            /\ reqs' = [reqs EXCEPT ![p] = <<>>]
            /\ UNCHANGED <<client, session, hsCount>>
       ELSE /\ client' = TRUE
            /\ Apply(p, Handler(c, <<>>, GetClient(SessionNow)))
    /\ UNCHANGED <<env, serverUp, listed, now, hsOk>>

\* A tools/call request with one of the names arrives.
CallTool(p, names, limit) ==
    /\ serverUp
    /\ call[p].pc \in {"idle", "done"}
    /\ \A q \in Calls : q < p => call[q].pc \notin {"idle", "done"}
    /\ started < limit
    /\ \E name \in names : \E a \in ArgsOf(name) :
         StartCall(p, [IdleCall EXCEPT !.tool = name, !.args = a])

\* The tools/call request that was delivered to slot p is handled.
CallArrives(p) ==
    /\ serverUp
    /\ call[p].pc = "idle" /\ call[p].tool # ""
    /\ StartCall(p, call[p])

\* The awaited ensureAuthenticated resolved: the call goes on.
Proceed(p) ==
    /\ call[p].pc = "authed"
    /\ Apply(p, Resume(call[p], reqs[p], SessionNow))
    /\ UNCHANGED <<env, serverUp, listed, client, now, hsOk, started>>

\* The token endpoint answers the handshake of call p.
HandshakeLands(p, rich) ==
    /\ call[p].pc = "awaitAuth"
    /\ LET n == reqs[p][Len(reqs[p])].n IN
       \E r \in IF rich THEN AuthOutcomes(n, now) ELSE CoarseAuthOutcomes(n, now) :
          /\ Apply(p, LandAuth(call[p], reqs[p], SessionNow, r))
          /\ hsOk' = IF r.st = "ok" THEN hsOk \cup {n} ELSE hsOk
    /\ UNCHANGED <<env, serverUp, listed, client, now, started>>

\* The API answers the request of call p.
ApiLands(p, answers) ==
    /\ call[p].pc = "awaitApi"
    /\ \E r \in answers : Apply(p, LandApi(call[p], reqs[p], SessionNow, r))
    /\ UNCHANGED <<env, serverUp, listed, client, now, hsOk, started>>

Next ==
    \/ Main
    \/ ListTools
    \/ Tick(MaxRaceTicks)
    \/ \E p \in Calls : CallTool(p, RaceInputs, MaxRace)
    \/ \E p \in Calls : Proceed(p)
    \/ \E p \in Calls : HandshakeLands(p, FALSE)
    \/ \E p \in Calls : ApiLands(p, CoarseApiOutcomes)

\* Concurrent tool calls; the remote gives one answer of each kind.
Spec == Init /\ [][Next]_vars

NextSeq ==
    \/ Main
    \/ ListTools
    \/ Tick(MaxTicks)
    \/ CallTool(1, ToolInputs, MaxCalls)
    \/ Proceed(1)
    \/ HandshakeLands(1, TRUE)
    \/ ApiLands(1, ApiOutcomes)

\* One tool call at a time; the remote gives every kind of answer.
SpecSeq == Init /\ [][NextSeq]_vars

\* The credentials are set and one tools/call request whose body the
\* handler assembles has been delivered.
InitNorm ==
    /\ apiKey = TRUE /\ apiSecret = TRUE
    /\ serverUp = FALSE /\ listed = FALSE /\ client = FALSE
    /\ accountId = NULL /\ accessToken = NULL /\ tokenExpiry = 0
    /\ cachedAuthResponse = NoResp
    /\ now = StartMs
    /\ hsCount = 0 /\ hsOk = {} /\ started = 0
    /\ \E c \in IntentCalls : call = [p \in Calls |-> IF p = 1 THEN c ELSE IdleCall]
    /\ reqs = [p \in Calls |-> <<>>]

NextNorm ==
    \/ Main
    \/ CallArrives(1)
    \/ Proceed(1)
    \/ HandshakeLands(1, FALSE)
    \/ ApiLands(1, CoarseApiOutcomes)

\* One neutron_create_transaction or neutron_create_lightning_invoice call,
\* over every intent; the remote gives one answer of each kind.
SpecNorm == InitNorm /\ [][NextNorm]_vars

\* The credentials are set and one neutron_create_lightning_invoice call
\* has been delivered.
InitLn ==
    /\ apiKey = TRUE /\ apiSecret = TRUE
    /\ serverUp = FALSE /\ listed = FALSE /\ client = FALSE
    /\ accountId = NULL /\ accessToken = NULL /\ tokenExpiry = 0
    /\ cachedAuthResponse = NoResp
    /\ now = StartMs
    /\ hsCount = 0 /\ hsOk = {} /\ started = 0
    /\ \E c \in LnCalls : call = [p \in Calls |-> IF p = 1 THEN c ELSE IdleCall]
    /\ reqs = [p \in Calls |-> <<>>]

NextLn ==
    \/ Main
    \/ CallArrives(1)
    \/ Proceed(1)
    \/ HandshakeLands(1, FALSE)
    \/ ApiLands(1, TxnOutcomes)

\* One neutron_create_lightning_invoice call, over the sample amounts; the
\* remote answers with every shape of transaction.
SpecLn == InitLn /\ [][NextLn]_vars

\* The calls that confirm a transaction.
ConfirmCalls ==
    {[IdleCall EXCEPT !.tool = "neutron_confirm_transaction", !.args.transactionId = t] :
        t \in TxnIds}

\* The credentials are set and two tools/call requests have been delivered:
\* a confirm or a lightning shortcut, and a confirm.
InitConfirm ==
    /\ apiKey = TRUE /\ apiSecret = TRUE
    /\ serverUp = FALSE /\ listed = FALSE /\ client = FALSE
    /\ accountId = NULL /\ accessToken = NULL /\ tokenExpiry = 0
    /\ cachedAuthResponse = NoResp
    /\ now = StartMs
    /\ hsCount = 0 /\ hsOk = {} /\ started = 0
    /\ \E c1 \in ConfirmCalls \cup {[IdleCall EXCEPT !.tool = "neutron_create_lightning_invoice",
                                                    !.args.amountSats = FiveThousandSats]} :
       \E c2 \in ConfirmCalls :
          call = [p \in Calls |-> IF p = 1 THEN c1 ELSE IF p = 2 THEN c2 ELSE IdleCall]
    /\ reqs = [p \in Calls |-> <<>>]

\* The request delivered to slot p is handled once the requests before it
\* have been answered.
NextCallArrives(p) ==
    /\ \A q \in Calls : q < p => call[q].pc = "done"
    /\ CallArrives(p)

NextConfirm ==
    \/ Main
    \/ \E p \in Calls : NextCallArrives(p)
    \/ \E p \in Calls : Proceed(p)
    \/ \E p \in Calls : HandshakeLands(p, FALSE)
    \/ \E p \in Calls : ApiLands(p, CoarseApiOutcomes)

\* Two tool calls, one after the other, the second a confirm; the remote
\* gives one answer of each kind.
SpecConfirm == InitConfirm /\ [][NextConfirm]_vars

\* Three intents: the fiat payout, the same with a reference id, and a
\* lightning payment of a source amount.
SomeIntents ==
    {PayoutIntent,
     [PayoutIntent EXCEPT !.extRefId = "ref-1"],
     [NoIntent EXCEPT !.sourceCcy = "BTC", !.sourceMethod = "neutronpay", !.sourceAmount = 5,
                      !.destCcy = "BTC", !.destMethod = "lightning",
                      !.paymentRequest = "lnbc1"]}

\* The credentials are set and two tools/call requests have been delivered:
\* a neutron_authenticate or a neutron_create_transaction, and a
\* neutron_create_transaction.
InitTwice ==
    /\ apiKey = TRUE /\ apiSecret = TRUE
    /\ serverUp = FALSE /\ listed = FALSE /\ client = FALSE
    /\ accountId = NULL /\ accessToken = NULL /\ tokenExpiry = 0
    /\ cachedAuthResponse = NoResp
    /\ now = StartMs
    /\ hsCount = 0 /\ hsOk = {} /\ started = 0
    /\ \E i1 \in SomeIntents \cup {NoIntent} : \E i2 \in SomeIntents :
          call = [p \in Calls |->
                    IF p = 1 /\ i1 = NoIntent THEN [IdleCall EXCEPT !.tool = "neutron_authenticate"]
                    ELSE IF p = 1
                    THEN [IdleCall EXCEPT !.tool = "neutron_create_transaction", !.args.intent = i1]
                    ELSE IF p = 2
                    THEN [IdleCall EXCEPT !.tool = "neutron_create_transaction", !.args.intent = i2]
                    ELSE IdleCall]
    /\ reqs = [p \in Calls |-> <<>>]

NextTwice ==
    \/ Main
    \/ Tick(MaxRaceTicks)
    \/ \E p \in Calls : NextCallArrives(p)
    \/ \E p \in Calls : Proceed(p)
    \/ \E p \in Calls : HandshakeLands(p, FALSE)
    \/ \E p \in Calls : ApiLands(p, CoarseApiOutcomes)

\* Two tool calls, one after the other, the second a
\* neutron_create_transaction; the clock advances; the remote gives one
\* answer of each kind.
SpecTwice == InitTwice /\ [][NextTwice]_vars

\* The credentials are set and one tools/call request has been delivered,
\* with a listed name or with a name that is not listed.
InitCatalog ==
    /\ apiKey = TRUE /\ apiSecret = TRUE
    /\ serverUp = FALSE /\ listed = FALSE /\ client = FALSE
    /\ accountId = NULL /\ accessToken = NULL /\ tokenExpiry = 0
    /\ cachedAuthResponse = NoResp
    /\ now = StartMs
    /\ hsCount = 0 /\ hsOk = {} /\ started = 0
    /\ \E name \in ListedTools \cup {"no_such_tool"} : \E a \in ArgsOf(name) :
          call = [p \in Calls |->
                    IF p = 1 THEN [IdleCall EXCEPT !.tool = name, !.args = a] ELSE IdleCall]
    /\ reqs = [p \in Calls |-> <<>>]

NextCatalog ==
    \/ Main
    \/ ListTools
    \/ CallArrives(1)
    \/ Proceed(1)
    \/ HandshakeLands(1, FALSE)
    \/ ApiLands(1, CoarseApiOutcomes)

\* One tool call with each name of the catalogue; the remote gives one
\* answer of each kind.
SpecCatalog == InitCatalog /\ [][NextCatalog]_vars

\* ------------------------------------------------ lending tools (v1.3.0)
\* A boolean argument: true, false (Undef when it is not given).
JsTrue == 1
JsFalse == 0

\* Answers of the lending service: a network failure, a body that is no
\* JSON, a non-2xx status with a JSON body, and a 2xx status with the body
\* null or an object with or without id, status and contractId.
LendOutcomes ==
    {[st |-> "net", status |-> 0, data |-> NoData],
     [st |-> "parse", status |-> 200, data |-> NoData],
     [st |-> "http", status |-> 500, data |-> [NoData EXCEPT !.null = TRUE]],
     [st |-> "ok", status |-> 200, data |-> [NoData EXCEPT !.null = TRUE]]}
    \cup {[st |-> "http", status |-> 500, data |-> [NoData EXCEPT !.error = e]] :
            e \in {ABSENT, "", "Loan not found"}}
    \cup {[st |-> "ok", status |-> 200,
           data |-> [null |-> FALSE, id |-> i, status |-> t, contractId |-> k, error |-> ABSENT]] :
            i \in {0, 1}, t \in {ABSENT, "active", "repaid"}, k \in {0, 1}}

\* The fetch of lendingRequest: no Authorization header.
LendEntry(op) ==
    [kind |-> "lend", method |-> op.method, path |-> op.path, target |-> op.target,
     bearer |-> 0, st |-> "pending", resp |-> 0, n |-> 0, forced |-> FALSE, okSeen |-> 0,
     body |-> NoReqBody, rbody |-> NoBody, data |-> NoData]

\* lendingRequest(method, path, body) up to its first await.
LendingRequest(c, log, s, method, path, target) ==
    LET op == [method |-> method, path |-> path, target |-> target, body |-> NoReqBody]
    IN  [call |-> [c EXCEPT !.pc = "awaitLend", !.op = op],
         log |-> Append(log, LendEntry(op)), hs |-> 0, s |-> s]

\* lendingRequest throws on the answer r: fetch rejects, res.json() rejects,
\* or the status is not 2xx.
LendThrows(r) == r.st # "ok"

\* The Error lendingRequest throws on the answer r.
LendError(r) ==
    CASE r.st = "net" -> Err("network", 0, "fetch failed")
      [] r.st = "parse" -> Err("syntax", 0, "Unexpected end of JSON input")
      [] r.st = "http" /\ r.data.null ->
            Err("type", r.status, "Cannot read properties of null")
      [] OTHER ->
            Err("lend", r.status,
                IF TruthyStr(r.data.error) THEN r.data.error ELSE "Lending API error")

\* Mutant of TermsAccepted: the rollover is requested whatever acceptTerms is.
TermsAcceptedAlways(a) == TRUE

\* case "neutron_lend_rollover": !args.acceptTerms is false.
TermsAccepted(a) == a.acceptTerms = JsTrue

\* The lending cases of the switch, up to their first await.
LendHandler(c, log, s) ==
    CASE c.tool = "neutron_lend_create" -> LendingRequest(c, log, s, "POST", "loans", 0)
      [] c.tool = "neutron_lend_rollover" ->
            IF ~TermsAccepted(c.args)
            THEN Throw(c, log, s, Err("precondition", 0, "Terms not accepted"))
            ELSE LendingRequest(c, log, s, "POST", "rollover", 0)
      [] c.tool = "neutron_lend_settle" -> LendingRequest(c, log, s, "GET", "loan", 0)
      [] OTHER -> Throw(c, log, s, Err("unknown_tool", 0, c.tool))

\* Mutant of SettleAfterLoan: the status of the loan is not looked at.
SettleAfterLoanAnyStatus(c, log, s, d) ==
    IF d.null THEN Throw(c, log, s, Err("type", 0, "Cannot read properties of null"))
    ELSE LendingRequest(c, log, s, "GET", "dlc-by-loan", 0)

\* case "neutron_lend_settle" after the loan was fetched.
SettleAfterLoan(c, log, s, d) ==
    IF d.null THEN Throw(c, log, s, Err("type", 0, "Cannot read properties of null"))
    ELSE IF d.status # "repaid"
    THEN Throw(c, log, s, Err("precondition", 0, "Loan status must be 'repaid' to settle"))
    ELSE LendingRequest(c, log, s, "GET", "dlc-by-loan", 0)

\* case "neutron_lend_settle" after the DLC contract was fetched.
SettleAfterContract(c, log, s, d) ==
    IF d.null \/ d.contractId = 0
    THEN Throw(c, log, s, Err("precondition", 0, "No DLC contract found for this loan"))
    ELSE LendingRequest(c, log, s, "POST", "settle", d.contractId)

\* Mutant of CreateAfterLoan: the DLC contract is requested for every loan
\* that was created.
CreateAfterLoanAlwaysDlc(c, log, s, d) ==
    IF d.null THEN Throw(c, log, s, Err("type", 0, "Cannot read properties of null"))
    ELSE LendingRequest(c, log, s, "POST", "dlc-contracts", d.id)

\* case "neutron_lend_create" after the loan was created: args.borrowerPubkey
\* && loan.id decides on the DLC request.
CreateAfterLoan(c, log, s, d) ==
    IF ~TruthyStr(c.args.borrowerPubkey)
    THEN Return(c, log, s, [NoVal EXCEPT !.type = "loan", !.loanId = d.id])
    ELSE IF d.null THEN Throw(c, log, s, Err("type", 0, "Cannot read properties of null"))
    ELSE IF d.id = 0
    THEN Return(c, log, s, [NoVal EXCEPT !.type = "loan", !.loanId = d.id])
    ELSE LendingRequest(c, log, s, "POST", "dlc-contracts", d.id)

\* Mutant of CreateAfterContractFails: the failure of the DLC request is
\* the failure of the tool call.
CreateAfterContractFailsThrows(c, log, s, e) == Throw(c, log, s, e)

\* case "neutron_lend_create": the catch around the DLC request.
CreateAfterContractFails(c, log, s, e) ==
    Return(c, log, s, [NoVal EXCEPT !.type = "loan", !.loanId = c.op.target,
                                    !.dlcError = e.detail])

\* What runs when lendingRequest returned the data d.
ContinueLend(c, log, s, d) ==
    CASE c.tool = "neutron_lend_settle" /\ c.op.path = "loan" -> SettleAfterLoan(c, log, s, d)
      [] c.tool = "neutron_lend_settle" /\ c.op.path = "dlc-by-loan" ->
            SettleAfterContract(c, log, s, d)
      [] c.tool = "neutron_lend_settle" /\ c.op.path = "settle" ->
            IF d.null THEN Throw(c, log, s, Err("type", 0, "Cannot read properties of null"))
            ELSE Return(c, log, s, [NoVal EXCEPT !.type = "settled", !.dlcContractId = c.op.target])
      [] c.tool = "neutron_lend_create" /\ c.op.path = "loans" -> CreateAfterLoan(c, log, s, d)
      [] c.tool = "neutron_lend_create" /\ c.op.path = "dlc-contracts" ->
            IF d.null
            THEN CreateAfterContractFails(c, log, s, Err("type", 0, "Cannot read properties of null"))
            ELSE Return(c, log, s, [NoVal EXCEPT !.type = "loan", !.loanId = c.op.target,
                                                 !.dlcContractId = d.contractId])
      [] OTHER -> Return(c, log, s, [NoVal EXCEPT !.type = "body"])

\* The answer r to a request to the lending service lands: the rest of
\* lendingRequest, and the case that awaited it.
LandLend(c, log, s, r) ==
    LET done == [log EXCEPT ![Len(log)].st = r.st, ![Len(log)].resp = r.status,
                            ![Len(log)].data = r.data]
    IN  IF LendThrows(r)
        THEN IF c.tool = "neutron_lend_create" /\ c.op.path = "dlc-contracts"
             THEN CreateAfterContractFails(c, done, s, LendError(r))
             ELSE Throw(c, done, s, LendError(r))
        ELSE ContinueLend(c, done, s, r.data)

\* The lending tools/call request that was delivered to slot p is handled:
\* the CallToolRequestSchema handler of v1.3.0 from its entry to its first
\* await.
LendCallArrives(p) ==
    /\ serverUp
    /\ call[p].pc = "idle" /\ call[p].tool # ""
    /\ started' = started + 1
    /\ IF GetClientThrows
       THEN /\ call' = [call EXCEPT ![p] =
                  [@ EXCEPT !.pc = "done", !.out = "thrown",
                            !.err = Err("config", 0, "NEUTRON_API_KEY and NEUTRON_API_SECRET environment variables are required")]]
            /\ UNCHANGED <<reqs, client, session, hsCount>>
       ELSE /\ client' = TRUE
            /\ Apply(p, LendHandler(call[p], <<>>, GetClient(SessionNow)))
    /\ UNCHANGED <<env, serverUp, listed, now, hsOk>>

\* The lending service answers the request of call p.
LendLands(p) ==
    /\ call[p].pc = "awaitLend"
    /\ \E r \in LendOutcomes : Apply(p, LandLend(call[p], reqs[p], SessionNow, r))
    /\ UNCHANGED <<env, serverUp, listed, client, now, hsOk, started>>

\* The lending calls: a settle, a rollover with acceptTerms true, false or
\* not given, and a create with borrowerPubkey not given, empty or a key.
LendCalls ==
    {[IdleCall EXCEPT !.tool = "neutron_lend_settle"]}
    \cup {[IdleCall EXCEPT !.tool = "neutron_lend_rollover", !.args.acceptTerms = a] :
            a \in {Undef, JsFalse, JsTrue}}
    \cup {[IdleCall EXCEPT !.tool = "neutron_lend_create", !.args.borrowerPubkey = k] :
            k \in {ABSENT, "", "02ab"}}

\* One lending tools/call request has been delivered; the credentials are
\* set or not.
InitLend ==
    /\ apiKey \in BOOLEAN /\ apiSecret \in BOOLEAN
    /\ serverUp = FALSE /\ listed = FALSE /\ client = FALSE
    /\ accountId = NULL /\ accessToken = NULL /\ tokenExpiry = 0
    /\ cachedAuthResponse = NoResp
    /\ now = StartMs
    /\ hsCount = 0 /\ hsOk = {} /\ started = 0
    /\ \E c \in LendCalls : call = [p \in Calls |-> IF p = 1 THEN c ELSE IdleCall]
    /\ reqs = [p \in Calls |-> <<>>]

NextLend ==
    \/ Main
    \/ LendCallArrives(1)
    \/ LendLands(1)

\* One call of a lending tool; the lending service gives every kind of
\* answer.
SpecLend == InitLend /\ [][NextLend]_vars


\* ============================================================== claims
\* The requests of call p that went to the payment API (not the handshakes).
ApiReqs(p) == SelectSeq(reqs[p], LAMBDA e : e.kind = "api")

HsReqs(p) == SelectSeq(reqs[p], LAMBDA e : e.kind = "handshake")

LastReq(p) == reqs[p][Len(reqs[p])]

\* The session is Authenticated: a cached response with an account id and a
\* token, and the clock is before the expiry.
SessionValid ==
    /\ cachedAuthResponse.id # 0
    /\ accountId >= 1 /\ accessToken >= 1
    /\ tokenExpiry # NaN /\ now < tokenExpiry

CredentialsSet == apiKey /\ apiSecret

\* ---------------------------------------------------------------- C1
\* C1: a handshake sent by the lazy path (not by authenticate) is sent only
\* from a state in which the session is not Authenticated; and a step in
\* which ensureAuthenticated resolves without a handshake hands out the
\* cached response, leaves the four session fields as they were and sends
\* no request.  So the requests made while one token is valid cause no
\* handshake beyond the one that fetched the token.
C1_IdempotentCaching ==
    [][ /\ (hsCount' # hsCount) =>
             \E p \in Calls :
                /\ reqs'[p] # <<>>
                /\ reqs'[p][Len(reqs'[p])].n = hsCount'
                /\ (reqs'[p][Len(reqs'[p])].forced \/ ~SessionValid)
        /\ \A p \in Calls :
             (SessionValid /\ call'[p] # call[p] /\ call'[p].pc = "authed"
                /\ call[p].pc # "awaitAuth") =>
                /\ call'[p].ret = cachedAuthResponse
                /\ UNCHANGED <<accountId, accessToken, tokenExpiry, cachedAuthResponse>>
                /\ hsCount' = hsCount
                /\ \A i \in DOMAIN reqs'[p] : reqs'[p][i].st # "pending"
      ]_vars

\* A request went through ensureAuthenticated on the cached session: it is
\* about to send its API request and has sent no handshake.
C1_Witness ==
    \E p \in Calls :
        /\ call[p].pc = "authed" /\ call[p].ctx = "req"
        /\ reqs[p] = <<>> /\ SessionValid /\ hsCount = 1

\* ---------------------------------------------------------------- C2
\* C2: an API request is in flight or answered only when some handshake has
\* succeeded; in every call each API request comes after the call went
\* through ensureAuthenticated, and a handshake of a call that was answered
\* with a failure is the last request of that call, which ended in an error.
C2_AuthBeforeSend ==
    \A p \in Calls :
        /\ ApiReqs(p) # <<>> => hsOk # {}
        /\ \A i \in DOMAIN reqs[p] :
             (reqs[p][i].kind = "handshake" /\ reqs[p][i].st \in {"http", "net", "parse"}) =>
                /\ i = Len(reqs[p])
                /\ call[p].pc = "done" /\ call[p].out = "isError"
        /\ \A i \in DOMAIN reqs[p] :
             (reqs[p][i].kind = "api" /\ i > 1 /\ reqs[p][i - 1].kind = "handshake") =>
                reqs[p][i - 1].st = "ok"

\* A request whose handshake failed ended without sending its API request.
C2_Witness ==
    \E p \in Calls :
        /\ call[p].tool = "neutron_get_rate" /\ call[p].pc = "done"
        /\ Len(reqs[p]) = 1 /\ reqs[p][1].kind = "handshake" /\ reqs[p][1].st = "http"

\* ---------------------------------------------------------------- C3
\* C3: a neutron_authenticate call that reached the client has sent exactly
\* one request, a handshake, whatever the session was; and when that
\* handshake is answered with success the four session fields are those of
\* its response.
C3_ForcedReauth ==
    /\ [](\A p \in Calls :
            (call[p].tool = "neutron_authenticate" /\ call[p].out # "thrown") =>
                /\ Len(reqs[p]) = 1
                /\ reqs[p][1].kind = "handshake" /\ reqs[p][1].forced)
    /\ [][\A p \in Calls :
            (call[p].tool = "neutron_authenticate" /\ call[p].pc = "awaitAuth"
                /\ call'[p].pc = "authed") =>
                /\ cachedAuthResponse' = call'[p].ret
                /\ cachedAuthResponse'.id = reqs[p][1].n
                /\ accountId' = call'[p].ret.accountId
                /\ accessToken' = call'[p].ret.accessToken
                /\ (call'[p].ret.expiredAt.k = "time") =>
                        tokenExpiry' = call'[p].ret.expiredAt.t
         ]_vars

\* A forced re-authentication succeeded after an earlier handshake had
\* succeeded, and the session holds its response.
C3_Witness ==
    \E p \in Calls :
        /\ call[p].tool = "neutron_authenticate" /\ call[p].pc = "authed"
        /\ reqs[p][1].okSeen >= 1 /\ reqs[p][1].st = "ok"
        /\ cachedAuthResponse.id = reqs[p][1].n /\ cachedAuthResponse.id >= 2

\* ---------------------------------------------------------------- C4
\* C4 as stated: in the step in which the handshake of a call is answered
\* with a non-2xx status, the call ends with an isError result and the
\* session is then not Authenticated.
C4_AuthFailureLeavesUnauthenticated ==
    [][\A p \in Calls :
          (call[p].pc = "awaitAuth" /\ call'[p].pc = "done"
             /\ reqs'[p][Len(reqs'[p])].st = "http") =>
             /\ call'[p].out = "isError" /\ call'[p].err.kind = "auth"
             /\ ~SessionValid'
      ]_vars

\* C4 amended: in the step in which the handshake of a call is answered with
\* a non-2xx status, the call ends with an isError result, the server keeps
\* accepting calls, no session field is written, and the session is then
\* not Authenticated unless the handshake of another call succeeded after
\* this one was sent.
C4_AuthFailureAmended ==
    [][\A p \in Calls :
          (call[p].pc = "awaitAuth" /\ call'[p].pc = "done"
             /\ reqs'[p][Len(reqs'[p])].st = "http") =>
             /\ call'[p].out = "isError" /\ call'[p].err.kind = "auth"
             /\ serverUp'
             /\ UNCHANGED <<accountId, accessToken, tokenExpiry, cachedAuthResponse>>
             /\ (Cardinality(hsOk') = reqs[p][Len(reqs[p])].okSeen) => ~SessionValid'
      ]_vars

\* A handshake was answered with a non-2xx status: the call ended in an
\* error and the session is not Authenticated.
C4_Witness ==
    \E p \in Calls :
        /\ call[p].pc = "done" /\ call[p].out = "isError" /\ call[p].err.kind = "auth"
        /\ LastReq(p).kind = "handshake" /\ LastReq(p).st = "http"
        /\ ~SessionValid /\ serverUp

\* ---------------------------------------------------------------- C5
\* C5: every tool call that has ended has ended with a structured result: a
\* success result, or an isError result that carries the error's message;
\* no error leaves the handler as a thrown fault.
C5_EveryErrorIsAResult ==
    \A p \in Calls :
        call[p].pc = "done" =>
            /\ call[p].out \in {"result", "isError"}
            /\ (call[p].err.kind # "none") <=> (call[p].out = "isError")

\* ---------------------------------------------------------------- C6
\* C6 as stated: while an API key or secret is missing the server answers
\* no tool listing and accepts no tool call.
C6_FatalAtStartup ==
    ~CredentialsSet => (~listed /\ \A p \in Calls : call[p].pc = "idle")

\* C6 amended: a missing API key or secret is not detected at startup, the
\* server starts and answers tool listings; but every tool call then ends
\* with the credentials error before a client is constructed, so while a
\* credential is missing no client exists and no HTTP request is sent.
C6_MissingCredentialsAmended ==
    ~CredentialsSet =>
        /\ ~client /\ hsCount = 0
        /\ \A p \in Calls :
             /\ reqs[p] = <<>>
             /\ call[p].pc # "idle" =>
                    (call[p].pc = "done" /\ call[p].err.kind = "config"
                        /\ call[p].out # "result")

\* With a credential missing the server has answered a tool listing and a
\* tool call has ended with the credentials error.
C6_Witness ==
    /\ ~CredentialsSet /\ serverUp /\ listed
    /\ \E p \in Calls : call[p].pc = "done" /\ call[p].err.kind = "config"

\* ---------------------------------------------------------------- C7
\* C7: the API requests of a neutron_create_lightning_invoice call are, in
\* this order, one create POST and at most one confirm PUT; the confirm is
\* sent only after the create was answered with success and targets the
\* txnId of that answer; a call that ended with a result has sent both.
C7_LightningOrdering ==
    \A p \in Calls :
        call[p].tool = "neutron_create_lightning_invoice" =>
            LET api == ApiReqs(p) IN
            /\ Len(api) <= 2
            /\ Len(api) >= 1 => (api[1].method = "POST" /\ api[1].path = "transaction")
            /\ Len(api) = 2 =>
                  /\ api[1].st = "ok"
                  /\ api[2].method = "PUT" /\ api[2].path = "confirm"
                  /\ api[2].target = api[1].resp
            /\ call[p].out = "result" => (Len(api) = 2 /\ api[2].st = "ok")

\* The shortcut ended with a result after a create answered with txnId 2
\* and a confirm of transaction 2.
C7_Witness ==
    \E p \in Calls :
        /\ call[p].tool = "neutron_create_lightning_invoice" /\ call[p].out = "result"
        /\ Len(ApiReqs(p)) = 2
        /\ ApiReqs(p)[1].resp = 2 /\ ApiReqs(p)[2].target = 2 /\ ApiReqs(p)[2].st = "ok"

\* ---------------------------------------------------------------- C8
\* A create POST of call p was answered with success / so was a confirm PUT.
Created(p) == \E i \in DOMAIN reqs[p] :
    reqs[p][i].kind = "api" /\ reqs[p][i].path = "transaction"
        /\ reqs[p][i].method = "POST" /\ reqs[p][i].st = "ok"

Confirmed(p) == \E i \in DOMAIN reqs[p] :
    reqs[p][i].kind = "api" /\ reqs[p][i].path = "confirm" /\ reqs[p][i].st = "ok"

C9_TwoStepFlow ==
    \A p \in Calls :
        /\ call[p].tool = "neutron_create_transaction" =>
              LET api == ApiReqs(p) IN
              /\ Len(api) <= 1
              /\ \A i \in DOMAIN api : api[i].method = "POST" /\ api[i].path = "transaction"
              /\ (call[p].pc = "done" /\ Len(api) = 0) =>
                    \/ reqs[p] = <<>> /\ call[p].err.kind = "config"
                    \/ reqs[p] # <<>> /\ LastReq(p).kind = "handshake"
                          /\ LastReq(p).st \in {"http", "net", "parse"}
              /\ call[p].out = "result" =>
                    /\ Len(api) = 1 /\ api[1].st = "ok"
                    /\ call[p].val.type = "body" /\ call[p].val.txnId = api[1].resp
        /\ \A i \in DOMAIN reqs[p] :
              (reqs[p][i].kind = "api" /\ reqs[p][i].path = "confirm") =>
                  \/ call[p].tool = "neutron_create_lightning_invoice"
                  \/ /\ call[p].tool = "neutron_confirm_transaction"
                     /\ reqs[p][i].target = call[p].args.transactionId

\* A quote was returned as the remote sent it, with no confirm sent.
C9_Witness ==
    \E p \in Calls :
        /\ call[p].tool = "neutron_create_transaction" /\ call[p].out = "result"
        /\ Len(ApiReqs(p)) = 1 /\ call[p].val.txnId = 2 /\ ApiReqs(p)[1].resp = 2

C11_RacingLazyAuth ==
    [][\A p \in Calls :
          /\ (call[p].pc \in {"idle", "done"} /\ call'[p].pc # call[p].pc
                 /\ call'[p].tool = "neutron_get_rate" /\ call'[p].out # "thrown"
                 /\ ~SessionValid) =>
                /\ call'[p].pc = "awaitAuth"
                /\ hsCount' = hsCount + 1
                /\ Len(reqs'[p]) = 1
                /\ reqs'[p][1].kind = "handshake" /\ reqs'[p][1].st = "pending"
                /\ reqs'[p][1].n = hsCount'
                /\ \A q \in Calls : \A i \in DOMAIN reqs[q] : reqs[q][i].n # hsCount'
          /\ (call[p].pc = "awaitAuth" /\ call'[p].pc = "authed") =>
                /\ cachedAuthResponse' = call'[p].ret
                /\ cachedAuthResponse'.id = reqs[p][Len(reqs[p])].n
                /\ accountId' = call'[p].ret.accountId
                /\ accessToken' = call'[p].ret.accessToken
                /\ tokenExpiry' = call'[p].ret.expiredAt.t
          /\ (call[p].pc = "awaitAuth" /\ call'[p].pc = "done") =>
                UNCHANGED <<accountId, accessToken, tokenExpiry, cachedAuthResponse>>
      ]_vars

\* Two lazy calls each sent a handshake while no handshake had succeeded;
\* both were answered with success, the one sent first landed last, and the
\* session is the one of its response.
C11_Witness ==
    /\ hsOk = {1, 2} /\ cachedAuthResponse.id = 1 /\ accessToken = 1
    /\ \A p \in Calls :
          /\ call[p].tool = "neutron_get_rate"
          /\ Len(HsReqs(p)) = 1 /\ HsReqs(p)[1].okSeen = 0 /\ ~HsReqs(p)[1].forced

\* --------------------------------------------------------------- C12
\* C12: in every tool call a request (handshake or API request) that met a
\* network failure or a non-2xx answer is the last request of the call, and
\* the call has ended with an isError result that names the failure; no
\* API request is sent twice by one call, and a request follows a handshake
\* only when that handshake succeeded.
C12_NoRetries ==
    \A p \in Calls :
        /\ \A i \in DOMAIN reqs[p] :
              reqs[p][i].st \in {"net", "http"} =>
                 /\ i = Len(reqs[p])
                 /\ call[p].pc = "done" /\ call[p].out = "isError"
                 /\ call[p].err.kind =
                        IF reqs[p][i].st = "net" THEN "network"
                        ELSE IF reqs[p][i].kind = "handshake" THEN "auth" ELSE "api"
        /\ \A i, j \in DOMAIN reqs[p] :
              (i < j /\ reqs[p][i].kind = "api" /\ reqs[p][j].kind = "api") =>
                 <<reqs[p][i].method, reqs[p][i].path>> # <<reqs[p][j].method, reqs[p][j].path>>
        /\ \A i \in DOMAIN reqs[p] :
              (i < Len(reqs[p]) /\ reqs[p][i].kind = "handshake") => reqs[p][i].st = "ok"

\* A call ended in an API error after the one API request it sent was
\* answered 400.
C12_Witness ==
    \E p \in Calls :
        /\ call[p].pc = "done" /\ call[p].out = "isError"
        /\ Len(ApiReqs(p)) = 1 /\ LastReq(p).kind = "api"
        /\ LastReq(p).st = "http" /\ LastReq(p).resp = 400
        /\ call[p].err.kind = "api"

\* --------------------------------------------------------------- C13
\* A session is cached: a response, an account id and a token.
SessionCached == cachedAuthResponse.id # 0 /\ accountId >= 1 /\ accessToken >= 1

\* Call p goes through ensureAuthenticated by the lazy path in this step.
LazyPass(p) ==
    /\ call'[p] # call[p] /\ call[p].pc # "awaitAuth"
    /\ call'[p].pc \in {"authed", "awaitAuth"} /\ call'[p].ctx # "authenticate"

\* C13: when a call goes through ensureAuthenticated with a session cached,
\* the cached response is handed out and no handshake is sent exactly when
\* now < tokenExpiry (so at now = tokenExpiry a handshake is sent, and one
\* tick before it none is); and when a lazy handshake is answered with
\* success, the session fields are those of the new response.
C13_ExpiryRule ==
    [][\A p \in Calls :
          /\ (LazyPass(p) /\ SessionCached) =>
                /\ (tokenExpiry # NaN /\ now < tokenExpiry) =>
                      /\ call'[p].pc = "authed" /\ call'[p].ret = cachedAuthResponse
                      /\ hsCount' = hsCount
                      /\ \A i \in DOMAIN reqs'[p] : reqs'[p][i].st # "pending"
                /\ (tokenExpiry = NaN \/ now >= tokenExpiry) =>
                      /\ call'[p].pc = "awaitAuth" /\ hsCount' = hsCount + 1
                      /\ reqs'[p][Len(reqs'[p])].kind = "handshake"
                      /\ reqs'[p][Len(reqs'[p])].st = "pending"
          /\ (call[p].pc = "awaitAuth" /\ call'[p].pc = "authed"
                 /\ call[p].ctx # "authenticate") =>
                /\ cachedAuthResponse' = call'[p].ret
                /\ cachedAuthResponse'.id = reqs[p][Len(reqs[p])].n
                /\ accountId' = call'[p].ret.accountId
                /\ accessToken' = call'[p].ret.accessToken
                /\ (call'[p].ret.expiredAt.k = "time") =>
                        tokenExpiry' = call'[p].ret.expiredAt.t
      ]_vars

\* A call found the cached session at the very instant of its expiry and
\* sent a handshake.
C13_Witness ==
    \E p \in Calls :
        /\ call[p].pc = "awaitAuth" /\ call[p].ctx = "req"
        /\ SessionCached /\ now = tokenExpiry
        /\ LastReq(p).n >= 2 /\ LastReq(p).st = "pending"

\* A call used the cached session one tick before its expiry.
C13_WitnessBefore ==
    \E p \in Calls :
        /\ call[p].pc = "authed" /\ call[p].ctx = "req" /\ reqs[p] = <<>>
        /\ SessionCached /\ now + TickMs = tokenExpiry

\* --------------------------------------------------------------- C14
\* new Date(expiredAt).getTime(): the epoch of a date string, NaN otherwise.
ParsedExpiredAt(e) == IF e.k = "time" THEN e.t ELSE NaN

\* C14 as stated: in the step in which a handshake is answered with success,
\* tokenExpiry becomes the response's expiredAt if the response has that
\* field, and otherwise the current time plus one hour.
C14_ExpiryIfPresent ==
    [][\A p \in Calls :
          (call[p].pc = "awaitAuth" /\ call'[p].pc = "authed") =>
              tokenExpiry' = IF call'[p].ret.expiredAt.k # "absent"
                             THEN ParsedExpiredAt(call'[p].ret.expiredAt)
                             ELSE now + HourMs
      ]_vars

\* C14 amended: in the step in which a handshake is answered with success,
\* tokenExpiry becomes the epoch the response's expiredAt parses to (NaN if
\* it is no date) if the response has that field and it is not empty, and
\* otherwise (field missing or empty) the time at which the answer is
\* processed plus 3,600,000 ms.
C14_ExpiryIfNonEmpty ==
    [][\A p \in Calls :
          (call[p].pc = "awaitAuth" /\ call'[p].pc = "authed") =>
              /\ cachedAuthResponse' = call'[p].ret
              /\ tokenExpiry' = IF call'[p].ret.expiredAt.k \notin {"absent", "empty"}
                                THEN ParsedExpiredAt(call'[p].ret.expiredAt)
                                ELSE now + 3600000
      ]_vars

\* A handshake was answered with success and an empty expiredAt: the
\* session expires one hour after the answer.
C14_Witness ==
    \E p \in Calls :
        /\ call[p].pc = "authed" /\ reqs[p] # <<>> /\ LastReq(p).st = "ok"
        /\ LastReq(p).kind = "handshake" /\ cachedAuthResponse = call[p].ret
        /\ call[p].ret.expiredAt.k = "empty" /\ tokenExpiry = now + HourMs

\* --------------------------------------------------------------- C15
\* The create POSTs of the neutron_create_transaction calls: the call's
\* intent and the body that went out.
Creates ==
    UNION {{[a |-> call[p].args.intent, b |-> reqs[p][i].body, st |-> reqs[p][i].st] :
               i \in {j \in DOMAIN reqs[p] : reqs[p][j].kind = "api"}} :
           p \in {q \in Calls : call[q].tool = "neutron_create_transaction"}}

Has(obj, k) == k \in DOMAIN obj

\* C15: in the body of a create POST of neutron_create_transaction,
\* sourceReq.amtRequested is a key iff sourceAmount is defined, and then
\* has its value (0 included); destReq.amtRequested likewise for
\* destAmount; an amount that is not given is an omitted key.
C15_AmountPassThrough ==
    \A r \in Creates :
        /\ Has(r.b["sourceReq"], "amtRequested") <=> (r.a.sourceAmount # Undef)
        /\ Has(r.b["destReq"], "amtRequested") <=> (r.a.destAmount # Undef)
        /\ Has(r.b["sourceReq"], "amtRequested") =>
              (r.b["sourceReq"]["amtRequested"] = r.a.sourceAmount
                  /\ r.b["sourceReq"]["amtRequested"] \in {0, 5})
        /\ Has(r.b["destReq"], "amtRequested") =>
              (r.b["destReq"]["amtRequested"] = r.a.destAmount
                  /\ r.b["destReq"]["amtRequested"] \in {0, 5})

\* An intent with only sourceAmount was sent with sourceReq.amtRequested and
\* without destReq.amtRequested.
C15_Witness ==
    \E r \in Creates :
        /\ r.a.sourceAmount = 5 /\ r.a.destAmount = Undef
        /\ Has(r.b["sourceReq"], "amtRequested") /\ r.b["sourceReq"]["amtRequested"] = 5
        /\ ~Has(r.b["destReq"], "amtRequested")

\* --------------------------------------------------------------- C16
\* The kyc object the claim describes for intent a, as it goes out (a key
\* of details whose argument is not given is left out).
KycDetailsOf(a) ==
    LET d1 == IF a.recipientName # ABSENT
              THEN Put(EmptyObj, "legalFullName", a.recipientName) ELSE EmptyObj
    IN  IF a.countryCode # ABSENT THEN Put(d1, "countryCode", a.countryCode) ELSE d1

KycTypeOf(a) == IF a.kycType # ABSENT THEN a.kycType ELSE "individual"

\* C16 as stated: destReq.kyc is a key of the body iff the intent has a
\* recipientName or a countryCode argument; then its type is kycType, or
\* "individual" without a kycType, and its details are the recipientName
\* as legalFullName and the countryCode.
C16_KycIffSupplied ==
    \A r \in Creates :
        /\ Has(r.b["destReq"], "kyc") <=>
              (r.a.recipientName # ABSENT \/ r.a.countryCode # ABSENT)
        /\ Has(r.b["destReq"], "kyc") =>
              /\ r.b["destReq"]["kyc"]["type"] = KycTypeOf(r.a)
              /\ r.b["destReq"]["kyc"]["details"] = KycDetailsOf(r.a)

\* C16 amended: destReq.kyc is a key of the body iff the intent's
\* recipientName or countryCode is given and not empty; then its type is
\* kycType, or "individual" without a kycType, and its details are the
\* recipientName as legalFullName and the countryCode, each as given (an
\* empty one included, one not given left out).
C16_KycIffNonEmpty ==
    \A r \in Creates :
        /\ Has(r.b["destReq"], "kyc") <=>
              (r.a.recipientName \notin {ABSENT, ""} \/ r.a.countryCode \notin {ABSENT, ""})
        /\ Has(r.b["destReq"], "kyc") =>
              /\ DOMAIN r.b["destReq"]["kyc"] = {"type", "details"}
              /\ r.b["destReq"]["kyc"]["type"] = KycTypeOf(r.a)
              /\ r.b["destReq"]["kyc"]["details"] = KycDetailsOf(r.a)

\* An intent with only a countryCode and no kycType went out with a kyc of
\* type "individual"; its recipientName is empty and so is legalFullName.
C16_Witness ==
    \E r \in Creates :
        /\ r.a.recipientName = "" /\ r.a.countryCode = "VN" /\ r.a.kycType = ABSENT
        /\ Has(r.b["destReq"], "kyc")
        /\ r.b["destReq"]["kyc"]["type"] = "individual"
        /\ r.b["destReq"]["kyc"]["details"] = [legalFullName |-> "", countryCode |-> "VN"]

\* --------------------------------------------------------------- C17
\* C17 as stated: sourceOfFunds is a key of the body iff the intent has a
\* bankAcctNum argument, and is then {purpose:1, source:5, relationship:3}.
C17_SourceOfFundsIffSupplied ==
    \A r \in Creates :
        /\ Has(r.b, "sourceOfFunds") <=> (r.a.bankAcctNum # ABSENT)
        /\ Has(r.b, "sourceOfFunds") =>
              r.b["sourceOfFunds"] = [purpose |-> 1, source |-> 5, relationship |-> 3]

\* C17 amended: sourceOfFunds is a key of the body iff the intent's
\* bankAcctNum is given and not empty, whatever the other arguments are,
\* and is then {purpose:1, source:5, relationship:3}; otherwise the body
\* has no such key.
C17_SourceOfFundsIffNonEmpty ==
    \A r \in Creates :
        /\ Has(r.b, "sourceOfFunds") <=> (r.a.bankAcctNum \notin {ABSENT, ""})
        /\ Has(r.b, "sourceOfFunds") =>
              r.b["sourceOfFunds"] = [purpose |-> 1, source |-> 5, relationship |-> 3]
        /\ DOMAIN r.b \subseteq {"extRefId", "sourceReq", "destReq", "sourceOfFunds"}

\* An intent with an institutionCode, a recipient and an empty bankAcctNum
\* went out without sourceOfFunds.
C17_Witness ==
    \E r \in Creates :
        /\ r.a.bankAcctNum = "" /\ r.a.institutionCode = "970422"
        /\ r.a.recipientName = "Nguyen Van A"
        /\ ~Has(r.b, "sourceOfFunds") /\ Has(r.b["destReq"], "kyc")

\* An intent with a bankAcctNum went out with the fixed sourceOfFunds.
C17_WitnessPayout ==
    \E r \in Creates :
        /\ r.a.bankAcctNum = "0123456789" /\ r.a.institutionCode = ABSENT
        /\ Has(r.b, "sourceOfFunds") /\ r.b["sourceOfFunds"]["source"] = 5

\* --------------------------------------------------------------- C18
\* Argument f of intent a.
Arg(a, f) ==
    CASE f = "paymentRequest" -> a.paymentRequest
      [] f = "lnurl" -> a.lnurl
      [] f = "address" -> a.address
      [] f = "bankAcctNum" -> a.bankAcctNum
      [] OTHER -> a.institutionCode

\* C18 as stated: the keys of destReq.reqDetails are those of
\* paymentRequest, lnurl, address, bankAcctNum, institutionCode that the
\* intent has, each with the intent's value; sourceReq.reqDetails is {}.
C18_DetailsIfPresent ==
    \A r \in Creates :
        /\ DOMAIN r.b["destReq"]["reqDetails"] =
              {f \in {"paymentRequest", "lnurl", "address", "bankAcctNum", "institutionCode"} :
                  Arg(r.a, f) # ABSENT}
        /\ \A f \in DOMAIN r.b["destReq"]["reqDetails"] :
              r.b["destReq"]["reqDetails"][f] = Arg(r.a, f)
        /\ DOMAIN r.b["sourceReq"]["reqDetails"] = {}

\* C18 amended: the keys of destReq.reqDetails are those of paymentRequest,
\* lnurl, address, bankAcctNum, institutionCode that the intent has with a
\* value that is not empty, each with the intent's value, and no other
\* key; sourceReq.reqDetails is {}.
C18_DetailsIfNonEmpty ==
    \A r \in Creates :
        /\ DOMAIN r.b["destReq"]["reqDetails"] =
              {f \in {"paymentRequest", "lnurl", "address", "bankAcctNum", "institutionCode"} :
                  Arg(r.a, f) \notin {ABSENT, ""}}
        /\ \A f \in DOMAIN r.b["destReq"]["reqDetails"] :
              r.b["destReq"]["reqDetails"][f] = Arg(r.a, f)
        /\ DOMAIN r.b["sourceReq"]["reqDetails"] = {}

\* An intent with an lnurl, an institutionCode and an empty paymentRequest
\* went out with exactly the lnurl and the institutionCode.
C18_Witness ==
    \E r \in Creates :
        /\ r.a.paymentRequest = "" /\ r.a.address = ABSENT /\ r.a.bankAcctNum = ABSENT
        /\ r.b["destReq"]["reqDetails"] =
              [lnurl |-> "user@domain.com", institutionCode |-> "970422"]
        /\ r.b["sourceReq"]["reqDetails"] = EmptyObj

\* --------------------------------------------------------------- C19
\* The create POSTs of every call, with the extRefId argument of the call.
CreatesWithRef ==
    UNION {{[ref |-> IF call[p].tool = "neutron_create_transaction"
                     THEN call[p].args.intent.extRefId ELSE call[p].args.extRefId,
             b |-> reqs[p][i].body] :
               i \in {j \in DOMAIN reqs[p] :
                         reqs[p][j].kind = "api" /\ reqs[p][j].path = "transaction"}} :
           p \in Calls}

\* C19: the body of a create POST has the key extRefId, with the argument's
\* value, when the call's extRefId is given and not empty; when it is not
\* given or is empty the body has no such key.
C19_ExtRefIdOnlyNonEmpty ==
    \A r \in CreatesWithRef :
        /\ r.ref \notin {ABSENT, ""} => (Has(r.b, "extRefId") /\ r.b["extRefId"] = r.ref)
        /\ r.ref \in {ABSENT, ""} => ~Has(r.b, "extRefId")

\* --------------------------------------------------------------- C20
\* C20: a neutron_create_transaction call whose intent sets both
\* sourceAmount and destAmount is handled like any other: once started it
\* has sent a request; it ends in an error only when its last request (the
\* handshake or the create POST) failed; its create POST carries both
\* amtRequested values; and it ends with a result, the remote's answer,
\* exactly when the create POST was answered with success.
C20_BothAmountsNotRejected ==
    \A p \in Calls :
        (call[p].tool = "neutron_create_transaction" /\ call[p].pc # "idle"
            /\ call[p].args.intent.sourceAmount # Undef
            /\ call[p].args.intent.destAmount # Undef) =>
            /\ reqs[p] # <<>>
            /\ call[p].out = "isError" =>
                  (LastReq(p).st \in {"net", "http", "parse"}
                      /\ call[p].err.kind \in {"network", "auth", "api", "syntax"})
            /\ \A i \in DOMAIN reqs[p] :
                  reqs[p][i].kind = "api" =>
                      /\ reqs[p][i].method = "POST" /\ reqs[p][i].path = "transaction"
                      /\ reqs[p][i].body["sourceReq"]["amtRequested"] =
                             call[p].args.intent.sourceAmount
                      /\ reqs[p][i].body["destReq"]["amtRequested"] =
                             call[p].args.intent.destAmount
            /\ (call[p].pc = "done" /\ LastReq(p).kind = "api") =>
                  /\ (LastReq(p).st = "ok") <=> (call[p].out = "result")
                  /\ call[p].out = "result" => call[p].val.txnId = LastReq(p).resp
                  /\ LastReq(p).st = "http" => call[p].err.status = LastReq(p).resp
            /\ (call[p].pc = "done" /\ LastReq(p).kind = "handshake") =>
                  LastReq(p).st # "ok"

\* An intent with both amounts was sent with both amtRequested values and
\* the call returned the remote's quote.
C20_Witness ==
    \E p \in Calls :
        /\ call[p].tool = "neutron_create_transaction" /\ call[p].out = "result"
        /\ call[p].args.intent.sourceAmount = 5 /\ call[p].args.intent.destAmount = 5
        /\ LastReq(p).kind = "api" /\ LastReq(p).st = "ok"
        /\ LastReq(p).body["sourceReq"]["amtRequested"] = 5
        /\ LastReq(p).body["destReq"]["amtRequested"] = 5
        /\ call[p].val.txnId = LastReq(p).resp

\* An intent with both amounts was answered 401 by the remote and the call
\* ended with that API error.
C20_WitnessRejectedRemotely ==
    \E p \in Calls :
        /\ call[p].tool = "neutron_create_transaction" /\ call[p].out = "isError"
        /\ call[p].args.intent.sourceAmount = 5 /\ call[p].args.intent.destAmount = 0
        /\ LastReq(p).kind = "api" /\ LastReq(p).st = "http" /\ call[p].err.kind = "api"

\* --------------------------------------------------------------- C21
Lightning(p) == call[p].tool = "neutron_create_lightning_invoice"

\* The create POSTs of call p.
CreatesOf(p) ==
    {reqs[p][i] : i \in {j \in DOMAIN reqs[p] :
                            reqs[p][j].kind = "api" /\ reqs[p][j].path = "transaction"}}

\* The doubles nearest to 0.00005 and 0.0001: 7378697629483821 * 2^-67 and
\* 7378697629483821 * 2^-66.
Btc0_00005 == [Sats(FALSE, 73786976, 29483821) EXCEPT !.e = -67]

Btc0_0001 == [Sats(FALSE, 73786976, 29483821) EXCEPT !.e = -66]

\* What a lightning call with amountSats = s requests and reports: the
\* create asks for the BTC amount the result reports as amountBtc (the
\* double 0.00005 for 5000 satoshis, 0.0001 for 10000), and the result
\* reports amountSats = s.
RoundTrip(p) ==
    /\ \A r \in CreatesOf(p) :
          /\ call[p].out = "result" => r.body["destReq"]["amtRequested"] = call[p].val.amountBtc
          /\ call[p].args.amountSats = Sats(FALSE, 0, 5000) =>
                r.body["destReq"]["amtRequested"] = Btc0_00005
          /\ call[p].args.amountSats = Sats(FALSE, 0, 10000) =>
                r.body["destReq"]["amtRequested"] = Btc0_0001
    /\ call[p].out = "result" => call[p].val.amountSats = call[p].args.amountSats

\* C21 as stated: for every integer s given as amountSats the shortcut
\* requests s / 100,000,000 BTC and reports amountSats = s.
C21_SatoshiRoundTrip ==
    \A p \in Calls :
        (Lightning(p) /\ call[p].args.amountSats # Undefined) => RoundTrip(p)

\* C21 amended: the same for every integer s with |s| < 2^51 (s = m * 2^e
\* with an m of Len(m) digits has Len(m) + e digits).
C21_SatoshiRoundTripBelow2p51 ==
    \A p \in Calls :
        (/\ Lightning(p) /\ call[p].args.amountSats # Undefined
         /\ Len(call[p].args.amountSats.m) + call[p].args.amountSats.e <= 51)
        => RoundTrip(p)

\* A call for 123456789 satoshis asked for 1.23456789 BTC, whose product
\* with 100,000,000 is not an integer, and reported amountSats = 123456789.
C21_Witness ==
    \E p \in Calls :
        /\ Lightning(p) /\ call[p].out = "result"
        /\ call[p].args.amountSats = Sats(FALSE, 1, 23456789)
        /\ call[p].val.amountSats = Sats(FALSE, 1, 23456789)
        /\ NumMul(call[p].val.amountBtc, SatsPerBtc).e < 0
        /\ \E r \in CreatesOf(p) : r.body["destReq"]["amtRequested"] = call[p].val.amountBtc

\* A call for 2^51 - 1 satoshis reported that amount.
C21_WitnessLargest ==
    \E p \in Calls :
        /\ Lightning(p) /\ call[p].out = "result"
        /\ call[p].args.amountSats = Sats(FALSE, 22517998, 13685247)
        /\ call[p].val.amountSats = call[p].args.amountSats

\* --------------------------------------------------------------- C22
TransactionTools ==
    {"neutron_create_lightning_invoice", "neutron_create_transaction",
     "neutron_confirm_transaction", "neutron_get_transaction", "neutron_list_transactions"}

NoAmount(p) ==
    Lightning(p) /\ call[p].args.amountSats = Undefined /\ call[p].args.amountBtc = Undefined

\* C22: a lightning call with neither amountSats nor amountBtc never waits
\* for anything and issues no HTTP request (no handshake, no create, no
\* confirm); once the handler's switch was entered (getClient did not throw)
\* it ends with the error "Provide either amountSats or amountBtc".  Every
\* other call of a transaction tool that entered the switch went out to the
\* remote: none ends on a local argument check.
C22_LocalPrecondition ==
    \A p \in Calls :
        /\ NoAmount(p) =>
              /\ reqs[p] = <<>>
              /\ call[p].pc \in {"idle", "done"}
              /\ (call[p].pc = "done" /\ call[p].out # "thrown") =>
                    /\ call[p].out = "isError"
                    /\ call[p].err.detail = "Provide either amountSats or amountBtc"
        /\ (/\ call[p].tool \in TransactionTools /\ ~NoAmount(p)
            /\ call[p].pc = "done" /\ call[p].out # "thrown") =>
              /\ reqs[p] # <<>>
              /\ call[p].err.kind # "precondition"

\* A lightning call without an amount ended with the error in a process that
\* has sent no request at all.
C22_Witness ==
    \E p \in Calls :
        /\ NoAmount(p) /\ call[p].pc = "done" /\ call[p].out = "isError"
        /\ call[p].err.detail = "Provide either amountSats or amountBtc"
        /\ reqs[p] = <<>> /\ hsCount = 0 /\ client

\* --------------------------------------------------------------- C23
\* C23: a lightning call that returned a result made two API requests, the
\* create and then the confirm, and its result's invoice, qrPageUrl, txnId
\* and status are the sourceReq.reqDetails.paymentRequest,
\* sourceReq.reqDetails.invoicePageUrl, txnId and txnState of the body that
\* answered the confirm (whatever the answer to the create held).
C23_ResultFromConfirm ==
    \A p \in Calls :
        (Lightning(p) /\ call[p].out = "result") =>
            LET api == ApiReqs(p) IN
            /\ Len(api) = 2
            /\ api[1].path = "transaction" /\ api[2].path = "confirm"
            /\ call[p].val.invoice = api[2].rbody.paymentRequest
            /\ call[p].val.qrPageUrl = api[2].rbody.invoicePageUrl
            /\ call[p].val.txnId = api[2].rbody.txnId
            /\ call[p].val.status = api[2].rbody.txnState

\* The create was answered with a quote that has no invoice, the confirm
\* with another txnId, the state "confirmed", an invoice and a page URL,
\* and the result shows the latter.
C23_Witness ==
    \E p \in Calls :
        /\ Lightning(p) /\ call[p].out = "result"
        /\ ApiReqs(p)[1].rbody = [txnId |-> 1, txnState |-> "quoted",
                                  paymentRequest |-> ABSENT, invoicePageUrl |-> ABSENT]
        /\ ApiReqs(p)[2].target = 1
        /\ ApiReqs(p)[2].rbody.txnId = 2
        /\ call[p].val.txnId = 2 /\ call[p].val.status = "confirmed"
        /\ call[p].val.invoice = "lnbc50u1p"
        /\ call[p].val.qrPageUrl = "https://pay.example/i/1"

\* --------------------------------------------------------------- C24
\* C24: the client, once constructed, is never dropped or replaced (so it
\* is constructed at most once); it is constructed only by a tool call made
\* with both credentials set; before that no handshake was sent and the
\* session fields are those of construction; a tool call that is thrown for
\* missing credentials leaves no client; and a request tool called while
\* the client holds a valid session goes on with the cached response,
\* without a handshake and without touching the session fields.
C24_SingletonSession ==
    [][ /\ client => client'
        /\ (~client /\ client') => (CredentialsSet /\ started' = started + 1)
        /\ ~client => (SessionNow = Cleared /\ hsCount = 0)
        /\ \A p \in Calls :
              (call'[p] # call[p] /\ call'[p].out = "thrown") => ~client'
        /\ \A p \in Calls :
              (/\ started' = started + 1 /\ call'[p] # call[p]
               /\ client /\ SessionValid
               /\ call'[p].tool \notin {"neutron_authenticate", "no_such_tool"}
               /\ ~NoAmount(p)') =>
                  /\ call'[p].pc = "authed" /\ call'[p].ret = cachedAuthResponse
                  /\ hsCount' = hsCount
                  /\ UNCHANGED session
      ]_vars

\* A second tool call found the client of the first and its valid session
\* and went on without a handshake.
C24_Witness ==
    \E p \in Calls :
        /\ started = 2 /\ client /\ SessionValid
        /\ call[p].pc = "authed" /\ call[p].ret = cachedAuthResponse
        /\ reqs[p] = <<>> /\ hsCount = 1

\* A tool call was thrown for missing credentials and there is no client.
C24_WitnessNoClient ==
    \E p \in Calls : call[p].out = "thrown" /\ ~client /\ started = 2

\* --------------------------------------------------------------- C25
\* The confirm PUTs for transaction t that call q sent and the remote
\* answered with success.
ConfirmedBy(q, t) ==
    {i \in DOMAIN reqs[q] :
        /\ reqs[q][i].kind = "api" /\ reqs[q][i].path = "confirm"
        /\ reqs[q][i].target = t /\ reqs[q][i].st = "ok"}

\* C25: a neutron_confirm_transaction call sends at most one API request, a
\* confirm PUT without a body for the txnId it was given; it sends exactly
\* one unless its authentication failed, whatever confirm PUTs went out
\* before; and a result it returns is the remote's answer to that PUT.
C25_ConfirmNotGuarded ==
    \A p \in Calls :
        call[p].tool = "neutron_confirm_transaction" =>
            LET api == ApiReqs(p) IN
            /\ Len(api) <= 1
            /\ \A i \in DOMAIN api :
                  /\ api[i].method = "PUT" /\ api[i].path = "confirm"
                  /\ api[i].target = call[p].args.transactionId
                  /\ api[i].body = NoReqBody
            /\ (call[p].pc = "done" /\ Len(api) = 0) =>
                  /\ reqs[p] # <<>> /\ LastReq(p).kind = "handshake"
                  /\ LastReq(p).st \in {"http", "net", "parse"}
            /\ call[p].out = "result" =>
                  /\ Len(api) = 1 /\ api[1].st = "ok"
                  /\ call[p].val.type = "body" /\ call[p].val.txnId = api[1].resp

\* The first call's confirm PUT of transaction 1 was answered with success,
\* and the second call, a confirm of transaction 1 again, has sent its PUT
\* all the same.
C25_Witness ==
    /\ call[1].tool = "neutron_confirm_transaction" /\ call[1].out = "result"
    /\ ConfirmedBy(1, 1) # {}
    /\ call[2].tool = "neutron_confirm_transaction" /\ call[2].args.transactionId = 1
    /\ Len(ApiReqs(2)) = 1 /\ ApiReqs(2)[1].target = 1 /\ ApiReqs(2)[1].method = "PUT"

\* The same after the lightning shortcut had confirmed transaction 1.
C25_WitnessAfterShortcut ==
    /\ Lightning(1) /\ call[1].out = "result" /\ ConfirmedBy(1, 1) # {}
    /\ call[2].tool = "neutron_confirm_transaction" /\ call[2].args.transactionId = 1
    /\ call[2].out = "result" /\ ConfirmedBy(2, 1) # {}

\* --------------------------------------------------------------- C26
CreateCall(p) == call[p].tool = "neutron_create_transaction"

C26_WitnessCached ==
    /\ call[1].tool = "neutron_authenticate" /\ call[1].out = "result"
    /\ CreateCall(2) /\ CreatesOf(2) # {} /\ HsReqs(2) = <<>>

\* --------------------------------------------------------------- C27
\* C27: a tool call with a name of the catalogue never ends with the error
\* "Unknown tool" nor with the TypeError of a call to a method the client
\* does not have.
C27_CatalogDispatchAgree ==
    \A p \in Calls :
        (call[p].tool \in ListedTools /\ call[p].pc = "done") =>
            call[p].err.kind \notin {"unknown_tool", "type"}

\* --------------------------------------------------------------- C28
\* C28: every API request that was sent carries as its bearer the access
\* token of a handshake that was answered with success (the token of
\* handshake n is n), never null.
C28_BearerFromHandshake ==
    \A p \in Calls : \A i \in DOMAIN reqs[p] :
        reqs[p][i].kind = "api" => (reqs[p][i].bearer # NULL /\ reqs[p][i].bearer \in hsOk)

\* --------------------------------------------------------------- C29
\* The instants the clock of a run can show.
Instants == {StartMs + k * TickMs : k \in 0..(MaxTicks + MaxRaceTicks + 2)}

\* C29: in every reachable state the four session fields are either all
\* cleared, or the cached response is the answer of one successful handshake
\* and accountId, accessToken and tokenExpiry are the values that
\* ensureAuthenticated derives from that same answer.
C29_SessionConsistent ==
    \/ SessionNow = Cleared
    \/ /\ cachedAuthResponse.id \in hsOk
       /\ accountId = cachedAuthResponse.accountId
       /\ accessToken = cachedAuthResponse.accessToken
       /\ \E t \in Instants : t <= now /\ tokenExpiry = ExpiryOf(cachedAuthResponse, t)

\* C29 witness: handshakes overlapped and landed out of order: the session
\* holds the answer of an earlier handshake although a later one, sent by a
\* forced re-authentication, had been answered with success before.
C29_Witness ==
    /\ cachedAuthResponse.id >= 1
    /\ \E n \in hsOk : n > cachedAuthResponse.id
    /\ \E p \in Calls : call[p].tool = "neutron_authenticate"
    /\ accessToken = cachedAuthResponse.accessToken

\* C29 witness: a forced re-authentication has cleared a session that a
\* handshake had filled.
C29_WitnessCleared == SessionNow = Cleared /\ hsOk # {}

\* --------------------------------------------------------------- C30
\* The last request of call p went to the API and failed: a non-2xx status
\* or a network failure.
FailedApi(p) ==
    /\ call[p].pc = "done" /\ reqs[p] # <<>>
    /\ LastReq(p).kind = "api" /\ LastReq(p).st \in {"http", "net"}

\* C30: the step in which an API request fails leaves the four session
\* fields as they are; the next tool call, handled before tokenExpiry, sends
\* no handshake and finds the cached answer; and its request goes out with
\* the token of the request that failed.
C30_FailureKeepsSession ==
    [][/\ (\E p \in Calls : call[p].pc = "awaitApi" /\ call'[p].pc = "done"
                            /\ LastReq(p)'.st \in {"http", "net"})
            => UNCHANGED session
       /\ (FailedApi(1) /\ call[2].pc = "idle" /\ call'[2].pc # "idle" /\ SessionValid)
            => (hsCount' = hsCount /\ call'[2].pc = "authed" /\ reqs'[2] = <<>>
                /\ UNCHANGED session)
       /\ (FailedApi(1) /\ call[2].pc = "authed" /\ reqs[2] = <<>> /\ call'[2].pc # "authed")
            => (Len(reqs'[2]) = 1 /\ reqs'[2][1].kind = "api"
                /\ reqs'[2][1].bearer = LastReq(1).bearer)]_vars

\* C30 witness: the first call's request was answered 401, and the second
\* call has sent its request with the same token and without a handshake.
C30_Witness ==
    /\ FailedApi(1) /\ LastReq(1).st = "http" /\ LastReq(1).resp = 401
    /\ reqs[2] # <<>> /\ reqs[2][1].kind = "api"
    /\ reqs[2][1].bearer = LastReq(1).bearer
    /\ reqs[2][1].bearer >= 1

\* C30 witness: the same after a network failure.
C30_WitnessNet ==
    /\ FailedApi(1) /\ LastReq(1).st = "net"
    /\ reqs[2] # <<>> /\ reqs[2][1].kind = "api"
    /\ reqs[2][1].bearer = LastReq(1).bearer

\* --------------------------------------------------------------- C31
\* The step in which call p took the cached branch of ensureAuthenticated:
\* it goes on past the await without a handshake of its own landing.
CacheHit(p) == call'[p] # call[p] /\ call'[p].pc = "authed" /\ call[p].pc # "awaitAuth"

\* The answer b of a handshake carries a non-empty accountId and a non-empty
\* accessToken.
CarriesIdAndToken(b) == b.id \in hsOk /\ b.accountId >= 1 /\ b.accessToken >= 1

\* C31 as stated: ensureAuthenticated takes its cached branch only on the
\* answer of a successful handshake with a non-empty accountId, a non-empty
\* accessToken and an expiredAt that, when present, parses as a date in the
\* future; an expiredAt that is no date, the empty string included, is
\* never reused.
C31_CachedOnlyIfUsable ==
    [][\A p \in Calls : CacheHit(p) =>
          /\ CarriesIdAndToken(cachedAuthResponse)
          /\ NumLt(now, tokenExpiry)
          /\ cachedAuthResponse.expiredAt.k \notin {"bad", "empty"}
          /\ cachedAuthResponse.expiredAt.k = "time" => now < cachedAuthResponse.expiredAt.t]_vars

\* C31 amended: the same, where the expiredAt that is never reused is one
\* that is past or a non-empty string that is no date; an empty expiredAt
\* counts as not given and the answer is cached for the default hour.
C31_CachedOnlyIfUsableNonEmpty ==
    [][\A p \in Calls : CacheHit(p) =>
          /\ CarriesIdAndToken(cachedAuthResponse)
          /\ NumLt(now, tokenExpiry)
          /\ cachedAuthResponse.expiredAt.k # "bad"
          /\ cachedAuthResponse.expiredAt.k = "time" => now < cachedAuthResponse.expiredAt.t]_vars

\* C31 witness: a request sends a handshake of its own although an earlier
\* handshake was answered with success, because that answer carried an
\* empty accountId and is what the session holds.
C31_Witness ==
    /\ cachedAuthResponse.id >= 1 /\ cachedAuthResponse.accountId = 0
    /\ reqs[1] # <<>> /\ LastReq(1).kind = "handshake" /\ ~LastReq(1).forced
    /\ LastReq(1).n > cachedAuthResponse.id

\* C31 witness: the same with an expiredAt that is no date.
C31_WitnessBadDate ==
    /\ cachedAuthResponse.id >= 1 /\ cachedAuthResponse.expiredAt.k = "bad"
    /\ reqs[1] # <<>> /\ LastReq(1).kind = "handshake" /\ ~LastReq(1).forced
    /\ LastReq(1).n > cachedAuthResponse.id

\* C31 witness: an answer with an empty expiredAt is reused by a later call.
C31_WitnessEmptyDate ==
    /\ cachedAuthResponse.id >= 1 /\ cachedAuthResponse.expiredAt.k = "empty"
    /\ call[1].pc = "authed" /\ reqs[1] = <<>>

\* --------------------------------------------------------------- C32
\* The step in which the handshake of call p is answered with a failure: a
\* network error, a non-2xx status or a body that is no JSON.
HandshakeFails(p) ==
    /\ call[p].pc = "awaitAuth" /\ call'[p].pc = "done"
    /\ LastReq(p)'.kind = "handshake" /\ LastReq(p)'.st \in {"net", "http", "parse"}

\* The step in which a neutron_authenticate call starts.
ForcedStarts(p) ==
    /\ call[p].pc \in {"idle", "done"} /\ call'[p].pc \notin {"idle", "done"}
    /\ call'[p].tool = "neutron_authenticate"

\* C32: the step in which a handshake sent by a request (not by
\* authenticate()) fails leaves the four session fields as they are, and a
\* step that changes any of them is the landing of a successful handshake
\* or the start of a forced re-authentication.
C32_FailedLazyHandshakeKeepsSession ==
    [][/\ \A p \in Calls : (HandshakeFails(p) /\ ~LastReq(p).forced) => UNCHANGED session
       /\ (session' # session) =>
             (hsOk' # hsOk \/ \E p \in Calls : ForcedStarts(p))]_vars

\* C32 witness: a request found the session expired, its handshake failed,
\* and the session still holds the answer of the earlier handshake.
C32_Witness ==
    /\ call[1].pc = "done" /\ reqs[1] # <<>>
    /\ LastReq(1).kind = "handshake" /\ ~LastReq(1).forced
    /\ LastReq(1).st \in {"net", "http", "parse"}
    /\ cachedAuthResponse.id >= 1 /\ accessToken >= 1 /\ accountId >= 1
    /\ tokenExpiry # 0

\* --------------------------------------------------------------- C33
\* The handshake that authenticate() sent for call p has failed, and the
\* call is over.
ForcedFailed(p) ==
    /\ call[p].pc = "done" /\ reqs[p] # <<>>
    /\ LastReq(p).kind = "handshake" /\ LastReq(p).forced
    /\ LastReq(p).st \in {"net", "http", "parse"}

C33_WitnessNext ==
    /\ hsCount >= 2 /\ hsOk = {}
    /\ reqs[1] # <<>> /\ reqs[1][1].kind = "handshake" /\ ~reqs[1][1].forced
    /\ reqs[1][1].n >= 2

\* --------------------------------------------------------------- C34
\* C34: a tool call whose last API request got a 2xx answer with a body
\* that is no JSON ends with isError (the SyntaxError of response.json());
\* a call that ends with a result has had every one of its API requests
\* answered 2xx with a parsed body; and neutron_delete_webhook's
\* {success: true} follows a DELETE whose answer was parsed.
C34_SuccessNeedsParsedBody ==
    \A p \in Calls : call[p].pc = "done" =>
        /\ (reqs[p] # <<>> /\ LastReq(p).kind = "api" /\ LastReq(p).st = "parse")
              => (call[p].out = "isError" /\ call[p].err.kind = "syntax")
        /\ call[p].out = "result"
              => \A i \in DOMAIN reqs[p] : reqs[p][i].kind = "api" => reqs[p][i].st = "ok"
        /\ call[p].val.type = "deleted"
              => (reqs[p] # <<>> /\ LastReq(p).kind = "api" /\ LastReq(p).method = "DELETE"
                  /\ LastReq(p).st = "ok")

\* C34 witness: the DELETE of neutron_delete_webhook was answered 2xx with a
\* body that is no JSON, and the call ended with isError.
C34_Witness ==
    /\ call[1].pc = "done" /\ call[1].tool = "neutron_delete_webhook"
    /\ reqs[1] # <<>> /\ LastReq(1).method = "DELETE" /\ LastReq(1).st = "parse"
    /\ call[1].out = "isError"

\* C34 witness: neutron_delete_webhook returned {success: true}.
C34_WitnessDeleted ==
    call[1].pc = "done" /\ call[1].out = "result" /\ call[1].val.type = "deleted"

\* --------------------------------------------------------------- C35
Settle(p) == call[p].tool = "neutron_lend_settle"

\* Call p has issued the settle POST.
SettleIssued(p) == \E i \in DOMAIN reqs[p] : reqs[p][i].path = "settle"

\* C35: the settle POST of neutron_lend_settle is the third request of the
\* call, after the GET of the loan was answered with status 'repaid' and
\* then the GET of the loan's DLC contract was answered with a contractId,
\* and it names that contract; a call that ended without issuing the settle
\* POST ended in an error.
C35_SettleAfterBothChecks ==
    \A p \in Calls : Settle(p) =>
        /\ \A i \in DOMAIN reqs[p] : reqs[p][i].path = "settle" =>
              /\ i = 3 /\ reqs[p][i].method = "POST"
              /\ reqs[p][1].method = "GET" /\ reqs[p][1].path = "loan"
              /\ reqs[p][1].st = "ok" /\ ~reqs[p][1].data.null
              /\ reqs[p][1].data.status = "repaid"
              /\ reqs[p][2].method = "GET" /\ reqs[p][2].path = "dlc-by-loan"
              /\ reqs[p][2].st = "ok" /\ ~reqs[p][2].data.null
              /\ reqs[p][2].data.contractId >= 1
              /\ reqs[p][i].target = reqs[p][2].data.contractId
        /\ (call[p].pc = "done" /\ ~SettleIssued(p)) => call[p].out \in {"isError", "thrown"}
        /\ Len(reqs[p]) <= 3

\* C35 witness: the settlement went through after both lookups.
C35_Witness ==
    /\ Settle(1) /\ call[1].pc = "done" /\ call[1].out = "result"
    /\ Len(reqs[1]) = 3 /\ reqs[1][3].path = "settle" /\ reqs[1][3].st = "ok"

\* C35 witness: the loan is not repaid and the call ended in an error after
\* its first request.
C35_WitnessNotRepaid ==
    /\ Settle(1) /\ call[1].pc = "done" /\ call[1].out = "isError"
    /\ Len(reqs[1]) = 1 /\ reqs[1][1].st = "ok" /\ reqs[1][1].data.status = "active"

\* C35 witness: the loan is repaid but the contract has no contractId.
C35_WitnessNoContract ==
    /\ Settle(1) /\ call[1].pc = "done" /\ call[1].out = "isError"
    /\ Len(reqs[1]) = 2 /\ reqs[1][2].st = "ok" /\ reqs[1][2].data.contractId = 0

\* --------------------------------------------------------------- C36
Rollover(p) == call[p].tool = "neutron_lend_rollover"

C36_WitnessAccepted ==
    /\ Rollover(1) /\ call[1].args.acceptTerms = JsTrue
    /\ reqs[1] # <<>> /\ reqs[1][1].path = "rollover"

\* --------------------------------------------------------------- C37
Create(p) == call[p].tool = "neutron_lend_create"

\* C37: the DLC-contract request of neutron_lend_create is the second
\* request of the call, after the loan-creation POST was answered 2xx with a
\* loan that has an id, and only with a borrowerPubkey given; when it fails
\* the call ends with the loan as its result, dlcError set and no
\* dlcContractId; when the loan-creation POST fails the call ends with
\* isError and no second request.
C37_DlcAfterLoanNeverFatal ==
    \A p \in Calls : Create(p) =>
        /\ \A i \in DOMAIN reqs[p] : reqs[p][i].path = "dlc-contracts" =>
              /\ i = 2
              /\ reqs[p][1].path = "loans" /\ reqs[p][1].method = "POST"
              /\ reqs[p][1].st = "ok" /\ reqs[p][1].data.id >= 1
              /\ call[p].args.borrowerPubkey \notin {ABSENT, ""}
              /\ reqs[p][i].target = reqs[p][1].data.id
        /\ (call[p].pc = "done" /\ Len(reqs[p]) = 2 /\ reqs[p][2].st # "ok") =>
              /\ call[p].out = "result" /\ call[p].val.type = "loan"
              /\ call[p].val.loanId = reqs[p][1].data.id
              /\ call[p].val.dlcError \notin {ABSENT, ""}
              /\ call[p].val.dlcContractId = 0
        /\ (call[p].pc = "done" /\ reqs[p] # <<>> /\ reqs[p][1].st # "ok") =>
              (call[p].out = "isError" /\ Len(reqs[p]) = 1)
        /\ Len(reqs[p]) <= 2

\* C37 witness: the loan was created, the DLC request was answered with a
\* non-2xx status, and the call returned the loan with dlcError.
C37_Witness ==
    /\ Create(1) /\ call[1].pc = "done" /\ Len(reqs[1]) = 2
    /\ reqs[1][2].path = "dlc-contracts" /\ reqs[1][2].st = "http"
    /\ call[1].out = "result" /\ call[1].val.dlcError = "Loan not found"

\* C37 witness: the loan-creation request failed.
C37_WitnessLoanFails ==
    /\ Create(1) /\ call[1].pc = "done" /\ Len(reqs[1]) = 1
    /\ reqs[1][1].st = "net" /\ call[1].out = "isError"
    /\ call[1].args.borrowerPubkey = "02ab"

\* C37 witness: the loan and its DLC contract were created.
C37_WitnessContract ==
    /\ Create(1) /\ call[1].pc = "done" /\ call[1].out = "result"
    /\ call[1].val.dlcContractId >= 1

====
